---- MODULE Spec2Model ----
(***************************************************************************)
(* Task router: the dance dispatch of src/services/commandRouter.js, the   *)
(* x402 payment handshake each selected robot goes through, and the parts  *)
(* of the registry and of the settlement service the dispatch reads.       *)
(*                                                                         *)
(* Amounts are integers in micro-units (1 = 0.000001).  A JavaScript value *)
(* is a record [t, s, n]: its typeof tag, its text when it is a string and *)
(* its magnitude when it is a number.                                      *)
(***************************************************************************)
EXTENDS Integers, Sequences, FiniteSets, TLC

(***************************************************************************)
(* Bounds of the model.                                                    *)
(***************************************************************************)
\* The largest integer tried for config.x402.confirmation.maxAttempts.
MaxConfiguredAttempts == 2

(***************************************************************************)
(* JavaScript values.                                                      *)
(***************************************************************************)
Undefined == [t |-> "undefined", s |-> "", n |-> 0]
Null == [t |-> "null", s |-> "", n |-> 0]
Obj == [t |-> "object", s |-> "", n |-> 0]
Str(x) == [t |-> "string", s |-> x, n |-> 0]
Num(k) == [t |-> "number", s |-> "", n |-> k]
NaN == [t |-> "number", s |-> "NaN", n |-> 0]
True == [t |-> "boolean", s |-> "true", n |-> 1]
False == [t |-> "boolean", s |-> "false", n |-> 0]
\* Boolean(b) of a flag
Bool(b) == IF b THEN True ELSE False

\* !!v
Truthy(v) ==
    \/ v.t = "string" /\ v.s # ""
    \/ v.t = "number" /\ v.n # 0 /\ v # NaN
    \/ v.t = "object"
    \/ v = True

\* v !== undefined && v !== null
Present(v) == v.t \notin {"undefined", "null"}

\* a || b
OrElse(a, b) == IF Truthy(a) THEN a ELSE b

\* Number(text) for the string literals the model uses.
StringToNumber(x) ==
    CASE x = "" -> Num(0)
      [] x = "0" -> Num(0)
      [] x = "0.1" -> Num(100000)
      [] x = "0.2" -> Num(200000)
      [] x = "0.3" -> Num(300000)
      [] OTHER -> NaN

\* Number(v)
ToNumber(v) ==
    CASE v.t = "number" -> v
      [] v.t = "string" -> StringToNumber(v.s)
      [] v.t = "null" -> Num(0)
      [] OTHER -> NaN

LAMPORTS_PER_SOL == 1000000000
\* Lamports in one micro-unit: LAMPORTS_PER_SOL / 10^6.
LamportsPerMicro == LAMPORTS_PER_SOL \div 1000000

parseAmountValue(value) ==
    IF ~Present(value) THEN Null
    ELSE IF ToNumber(value) = NaN THEN Null ELSE ToNumber(value)

(***************************************************************************)
(* Response bodies and the 402 parser.                                     *)
(***************************************************************************)
\* accepts[0] as the parser reads it: accept?.payTo, accept?.amount,
\* accept?.asset and accept?.extra?.reference (Undefined when accept or
\* extra is missing).
Accept(ref, payTo, amount, asset) ==
    [extraReference |-> ref, payTo |-> payTo, amount |-> amount, asset |-> asset]

\* The body {} : every property reads undefined.
EmptyBody ==
    [raw |-> Obj, x402Version |-> Undefined, acceptsIsArray |-> FALSE,
     accepts |-> <<>>, reference |-> Undefined, receiver |-> Undefined,
     payTo |-> Undefined, amount |-> Undefined, asset |-> Undefined,
     error |-> Undefined, message |-> Undefined]

\* A body that is no object (a string, null, nothing at all).
PlainBody(v) == [EmptyBody EXCEPT !.raw = v]

V2Body(accepts) ==
    [EmptyBody EXCEPT !.x402Version = Num(2), !.acceptsIsArray = TRUE,
                      !.accepts = accepts]

LegacyBody(ref, receiver, payTo, amount, asset) ==
    [EmptyBody EXCEPT !.reference = ref, !.receiver = receiver,
                      !.payTo = payTo, !.amount = amount, !.asset = asset]

ErrorBody(text) == [EmptyBody EXCEPT !.error = Str(text)]

Invoice(ref, receiver, amount, asset) ==
    [reference |-> ref, receiver |-> receiver, amount |-> amount, asset |-> asset]

\* The legacy shape read with the amount tested against undefined only.
parse402LegacyKeepsNullAmount(data) ==
    LET to == OrElse(data.receiver, data.payTo)
    IN  IF Truthy(data.reference) /\ Truthy(to) /\ data.amount # Undefined
           /\ Truthy(data.asset)
        THEN Invoice(data.reference, to, data.amount, data.asset)
        ELSE Null

parse402Legacy(data) ==
    LET to == OrElse(data.receiver, data.payTo)
    IN  IF Truthy(data.reference) /\ Truthy(to) /\ Present(data.amount)
           /\ Truthy(data.asset)
        THEN Invoice(data.reference, to, data.amount, data.asset)
        ELSE Null

\* The current shape accepted without its extra.reference.
parse402PaymentRequestSkipsReference(data) ==
    IF ~Truthy(data.raw) \/ data.raw.t # "object" THEN Null
    ELSE IF /\ data.x402Version = Num(2)
            /\ data.acceptsIsArray
            /\ Len(data.accepts) > 0
            /\ LET accept == data.accepts[1]
               IN  /\ Truthy(accept.payTo)
                   /\ Present(accept.amount)
                   /\ Truthy(accept.asset)
         THEN LET accept == data.accepts[1]
              IN  Invoice(accept.extraReference, accept.payTo, accept.amount,
                          accept.asset)
         ELSE parse402Legacy(data)

parse402PaymentRequest(data) ==
    IF ~Truthy(data.raw) \/ data.raw.t # "object" THEN Null
    ELSE IF /\ data.x402Version = Num(2)
            /\ data.acceptsIsArray
            /\ Len(data.accepts) > 0
            /\ LET accept == data.accepts[1]
               IN  /\ Truthy(accept.extraReference)
                   /\ Truthy(accept.payTo)
                   /\ Present(accept.amount)
                   /\ Truthy(accept.asset)
         THEN LET accept == data.accepts[1]
              IN  Invoice(accept.extraReference, accept.payTo, accept.amount,
                          accept.asset)
         ELSE parse402Legacy(data)

(***************************************************************************)
(* Method descriptors and the text matching of the selector.               *)
(***************************************************************************)
DANCE_METHOD_IDENTIFIERS == <<"/api/v1/robot/move_demo", "/commands/dance", "move_demo">>

\* String.prototype.toLowerCase on the texts robots advertise in the model.
ToLowerCase(x) ==
    CASE x = "/API/V1/ROBOT/MOVE_DEMO" -> "/api/v1/robot/move_demo"
      [] x = "Move demo routine" -> "move demo routine"
      [] x = "RANDOM" -> "random"
      [] OTHER -> x

\* String.prototype.includes on lower-cased texts: the needles each text
\* of the model contains.
LowerIncludes(content, needle) ==
    \/ content = needle
    \/ needle = ""
    \/ content = "/api/v1/robot/move_demo" /\ needle = "move_demo"
    \/ content = "move demo routine" /\ needle = "move demo"
    \/ content = "/api/v1/robot/buy-cola" /\ needle = "buy-cola"
    \/ content = "/commands/buy-cola" /\ needle = "buy-cola"

matchIdentifier(content, identifier) ==
    IF content = "" \/ identifier = "" THEN FALSE
    ELSE LowerIncludes(ToLowerCase(content), ToLowerCase(identifier))

\* A bare method name (typeof method === 'string').
SimpleMethod(name) ==
    [isString |-> TRUE, name |-> name, path |-> "", description |-> "",
     callable |-> "", pricingAmount |-> Undefined]

\* A detailed descriptor; a missing path, description or rosAction.callable
\* reads '' (the code's `|| ''`), pricingAmount is method.pricing?.amount.
DetailedMethod(path, description, callable, pricingAmount) ==
    [isString |-> FALSE, name |-> "", path |-> path, description |-> description,
     callable |-> callable, pricingAmount |-> pricingAmount]

methodMatches(method, identifiers) ==
    IF method.isString
    THEN method.name # ""
         /\ \E i \in 1..Len(identifiers) : matchIdentifier(method.name, identifiers[i])
    ELSE \E i \in 1..Len(identifiers) :
            \/ matchIdentifier(method.path, identifiers[i])
            \/ matchIdentifier(method.description, identifiers[i])
            \/ matchIdentifier(method.callable, identifiers[i])

\* The first matching entry of robot.status.availableMethods, or Null.
findMethodEntry(robot, identifiers) ==
    LET methods == robot.status.availableMethods
        hits == {i \in 1..Len(methods) : methodMatches(methods[i], identifiers)}
    IN  IF hits = {} THEN Null
        ELSE methods[CHOOSE i \in hits : \A j \in hits : i <= j]

getPricingAmount(method) ==
    IF method = Null THEN Null
    ELSE IF method.isString THEN Null
    ELSE parseAmountValue(method.pricingAmount)

deriveBaseAmount(settlement, invoice, methodAmountFallback) ==
    LET fromSettlement ==
            IF settlement = Null THEN Null ELSE parseAmountValue(settlement.amount)
        fromLamports ==
            IF fromSettlement = Null /\ settlement # Null
               /\ settlement.lamports # Undefined
            THEN (IF ToNumber(settlement.lamports) = NaN THEN NaN
                  ELSE Num(ToNumber(settlement.lamports).n \div LamportsPerMicro))
            ELSE fromSettlement
        fromInvoice ==
            IF fromLamports = Null /\ invoice # Null
            THEN parseAmountValue(invoice.amount)
            ELSE fromLamports
    IN  IF fromInvoice = Null
        THEN (IF methodAmountFallback # Undefined
              THEN parseAmountValue(methodAmountFallback) ELSE Null)
        ELSE fromInvoice

\* config.pricing.markupPercent as the router reads it (its default).
markupPercent == 10

RECURSIVE SumOf(_)
SumOf(amounts) == IF amounts = <<>> THEN 0 ELSE Head(amounts) + SumOf(Tail(amounts))

\* Amounts are IEEE doubles in the code.  An amount of k micro-units is
\* the double nearest to k / 10^6, a sum is taken from 0 left to right, and
\* the multiplier is the double 1 + 10 / 100.  Where the product is an
\* exact tie between two micro-units in the reals, the double product lies
\* just above or just below the tie.  These are the amounts, and the sums
\* by their addends, whose double product lies below: computed from the
\* doubles for every amount up to 400 micro-units and for every sum of two
\* or three amounts among 10, 35, 75, 100000 and 200000 micro-units.
\* (Amounts that are multiples of 10 micro-units give no tie.)
ProductsBelowTie ==
    {<<75>>, <<225>>, <<235>>, <<245>>, <<385>>,
     <<10, 35>>, <<10, 75>>, <<35, 10>>, <<75, 10>>, <<75, 75, 75>>}

\* parseFloat((sum * (1 + markup / 100)).toFixed(6)) in micro-units, for
\* the sum of the addends: toFixed takes the micro-unit nearest to the
\* double product, the larger one if the double is halfway.
RoundedMarkupOfSum(addends, markup) ==
    LET scaled == SumOf(addends) * (100 + markup)
    IN  IF scaled < 0 THEN -((2 * (-scaled) + 100) \div 200)
        ELSE IF scaled % 100 = 50 /\ addends \in ProductsBelowTie
        THEN scaled \div 100
        ELSE (2 * scaled + 100) \div 200

\* parseFloat((x * (1 + markup / 100)).toFixed(6)) in micro-units.
RoundedMarkup(micro, markup) == RoundedMarkupOfSum(<<micro>>, markup)

summarisePricing(baseAmount, markup) ==
    LET parsed == parseAmountValue(baseAmount)
    IN  IF parsed = Null THEN Null
        ELSE [baseAmount |-> parsed.n, markupPercent |-> markup,
              suggestedPrice |-> RoundedMarkup(parsed.n, markup)]

(***************************************************************************)
(* Selection of the robots of a dance.                                     *)
(***************************************************************************)
\* The comparator of sortRobotsByPrice: negative, zero or positive.
ComparePrice(left, right, identifiers, order) ==
    LET direction == IF order = "desc" THEN -1 ELSE 1
        leftPrice == getPricingAmount(findMethodEntry(left, identifiers))
        rightPrice == getPricingAmount(findMethodEntry(right, identifiers))
    IN  IF leftPrice = Null /\ rightPrice = Null THEN 0
        ELSE IF leftPrice = Null THEN 1
        ELSE IF rightPrice = Null THEN -1
        ELSE IF leftPrice = rightPrice THEN 0
        ELSE IF leftPrice.n > rightPrice.n THEN direction ELSE -direction

\* The insertion of an unstable sort: x goes before the elements it
\* compares equal to.
RECURSIVE InsertByPriceBeforeEquals(_, _, _, _)
InsertByPriceBeforeEquals(sorted, x, identifiers, order) ==
    IF sorted = <<>> THEN <<x>>
    ELSE IF ComparePrice(x, Head(sorted), identifiers, order) <= 0
         THEN <<x>> \o sorted
         ELSE <<Head(sorted)>>
              \o InsertByPriceBeforeEquals(Tail(sorted), x, identifiers, order)

\* x put into the sorted list after every element it does not precede.
RECURSIVE InsertByPrice(_, _, _, _)
InsertByPrice(sorted, x, identifiers, order) ==
    IF sorted = <<>> THEN <<x>>
    ELSE IF ComparePrice(x, Head(sorted), identifiers, order) < 0
         THEN <<x>> \o sorted
         ELSE <<Head(sorted)>> \o InsertByPrice(Tail(sorted), x, identifiers, order)

\* [...robots].sort(comparator): Array.prototype.sort is stable.
RECURSIVE sortRobotsByPrice(_, _, _)
sortRobotsByPrice(list, identifiers, order) ==
    IF list = <<>> THEN <<>>
    ELSE InsertByPrice(sortRobotsByPrice(SubSeq(list, 1, Len(list) - 1), identifiers, order),
                       list[Len(list)], identifiers, order)

\* The orders shuffleArray can return: every permutation of the list.
shuffleArray(list) ==
    LET n == Len(list)
        perms == {f \in [1..n -> 1..n] : \A i, j \in 1..n : i # j => f[i] # f[j]}
    IN  {[i \in 1..n |-> list[f[i]]] : f \in perms}

robotSupportsMoveDemo(robot) ==
    \E i \in 1..Len(robot.status.availableMethods) :
        LET method == robot.status.availableMethods[i]
        IN  IF method.isString
            THEN method.name # ""
                 /\ LowerIncludes(ToLowerCase(method.name), "move_demo")
            ELSE \/ LowerIncludes(ToLowerCase(method.path), "move_demo")
                 \/ LowerIncludes(ToLowerCase(method.description), "move demo")
                 \/ LowerIncludes(ToLowerCase(method.callable), "move_demo")

createHttpError(statusCode, message) == [statusCode |-> statusCode, message |-> message]

\* A registry that lists its robots whatever their state.
getRobotsInAnyState(registry, state) == registry

\* registry.getRobotsByState(state): the listed robots in that state, in
\* the order of the map.
getRobotsByState(registry, state) ==
    LET inState(robot) == robot.status.state = state
    IN  SelectSeq(registry, inState)

(***************************************************************************)
(* Health payloads and their normalisation (healthMonitor.js).             *)
(***************************************************************************)
\* A method name, path or description of a health payload is a sequence of
\* tokens: the separators "/" and " " and words.  The empty sequence is
\* the empty string, and stands for a missing path or description too,
\* which the code reads with `|| ''`.
LowerToken(token) ==
    CASE token = "Health" -> "health"
      [] token = "HEALTH" -> "health"
      [] token = "API" -> "api"
      [] OTHER -> token

\* String.prototype.toLowerCase
TextToLowerCase(text) == [i \in 1..Len(text) |-> LowerToken(text[i])]

\* String.prototype.trim
RECURSIVE Trim(_)
Trim(text) ==
    IF text = <<>> THEN text
    ELSE IF Head(text) = " " THEN Trim(Tail(text))
    ELSE IF text[Len(text)] = " " THEN Trim(SubSeq(text, 1, Len(text) - 1))
    ELSE text

\* String.prototype.endsWith
EndsWith(text, suffix) ==
    /\ Len(text) >= Len(suffix)
    /\ SubSeq(text, Len(text) - Len(suffix) + 1, Len(text)) = suffix

\* /^\/?health\/?$/i.test(text)
TestHealthPattern(text) ==
    TextToLowerCase(text) \in {<<"health">>, <<"/", "health">>, <<"health", "/">>,
                               <<"/", "health", "/">>}

\* An entry of availableMethods: a string, or a descriptor with a path and
\* a description.
MethodName(text) == [isString |-> TRUE, text |-> text, path |-> <<>>, description |-> <<>>]
MethodDescriptor(path, description) ==
    [isString |-> FALSE, text |-> <<>>, path |-> path, description |-> description]

isHealthMethod(m) ==
    IF m.isString THEN TestHealthPattern(Trim(m.text))
    ELSE LET path == TextToLowerCase(IF m.path # <<>> THEN m.path ELSE m.description)
         IN  \/ path = <<"health">>
             \/ path = <<"/", "health">>
             \/ EndsWith(path, <<"/", "health">>)

\* The fields normalizeHealthPayload reads of a payload object, at its top
\* level and in its `data` when that is an object.
HealthFields(status, message, methodsIsArray, methods, location) ==
    [status |-> status, message |-> message, methodsIsArray |-> methodsIsArray,
     availableMethods |-> methods, location |-> location]

NoHealthFields == HealthFields(Undefined, Undefined, FALSE, <<>>, Undefined)

\* response.data of a health request: raw is what the payload is (an
\* object, a string, nothing), top its own fields, dataIsObject whether its
\* `data` is an object, and data the fields of that object.
HealthPayload(raw, top, dataIsObject, data) ==
    [raw |-> raw, top |-> top, dataIsObject |-> dataIsObject, data |-> data]

\* The status a probe returns.
ProbeStatus(state, message, methods, location, secure) ==
    [state |-> state, message |-> message, availableMethods |-> methods,
     location |-> location, secure |-> secure]

normalizeHealthPayload(rawPayload, fallbackMessage, secure) ==
    LET fallback == OrElse(fallbackMessage, Str("Responded"))
    IN  IF ~Truthy(rawPayload.raw) \/ rawPayload.raw.t # "object"
        THEN ProbeStatus(Str("unknown"), fallback, <<>>, Null, secure)
        ELSE LET payload == IF rawPayload.dataIsObject THEN rawPayload.data
                            ELSE rawPayload.top
                 state == OrElse(OrElse(payload.status, rawPayload.top.status),
                                 Str("unknown"))
                 message == OrElse(OrElse(payload.message, rawPayload.top.message),
                                   fallback)
                 rawMethods == IF payload.methodsIsArray THEN payload.availableMethods
                               ELSE IF rawPayload.top.methodsIsArray
                               THEN rawPayload.top.availableMethods
                               ELSE <<>>
                 keep(m) == ~isHealthMethod(m)
                 location == OrElse(OrElse(payload.location, rawPayload.top.location),
                                    Null)
             IN  ProbeStatus(state, OrElse(message, fallback),
                             SelectSeq(rawMethods, keep), location, secure)

(***************************************************************************)
(* State.                                                                  *)
(***************************************************************************)
VARIABLES
    config,             \* the configuration the router was created with
    x402Service,        \* the settlement service: its key and its backend
    robots,             \* registry.robots: the records, in map order
    pc,                 \* where the dance call stands
    selectedRobots,     \* dance: the robots selected, in selection order
    responses,          \* dance: the per-robot results pushed so far
    normalisedInvoice,  \* executeMoveDemo: the invoice being paid
    settlement,         \* executeMoveDemo: what settleInvoice returned
    attempt,            \* executeMoveDemo: the confirmation attempt counter
    finalResponse,      \* executeMoveDemo: the last paid response
    returned,           \* what the dance call returned or threw
    sent,               \* history: every request issued, in order
    settled             \* history: every settlement settleInvoice returned

vars == <<config, x402Service, robots, pc, selectedRobots, responses,
          normalisedInvoice, settlement, attempt, finalResponse, returned,
          sent, settled>>

\* The 402 parser taken alone: a body handed to it and what it made of it.
VARIABLES
    paymentRequired,    \* parse402PaymentRequest: the body (its data argument)
    parsedInvoice       \* parse402PaymentRequest: its result, once it returned

parseVars == <<paymentRequired, parsedInvoice>>

\* No body has been handed to the parser.
ParserIdle ==
    /\ paymentRequired = Undefined
    /\ parsedInvoice = Undefined

\* The registry of robotRegistry.js with its health probes.  Robot records
\* are objects: the map, the probes under way and the arrays list() returns
\* hold references to them.
VARIABLES
    objects,            \* the robot objects allocated so far, by reference
    robotsMap,          \* this.robots: its [id, robot] entries in insertion order
    tasks,              \* the addRobot and refreshRobot calls awaiting a health request
    listed,             \* a list() call: whether it returned, and the array it returned
    listedThen,         \* history: the records that array held when it was returned
    ended,              \* history: the addRobot or refreshRobot call that ended last
    started,            \* history: the addRobot and refreshRobot calls started
    clock               \* the status updates made so far (new Date())

registryVars == <<objects, robotsMap, tasks, listed, listedThen, ended, started, clock>>

\* No robot has been registered.
RegistryEmpty ==
    /\ objects = <<>>
    /\ robotsMap = <<>>
    /\ tasks = {}
    /\ listed = [returned |-> FALSE, array |-> <<>>]
    /\ listedThen = <<>>
    /\ ended = [op |-> "", robotId |-> 0, threw |-> FALSE, value |-> 0, record |-> Null,
                probe |-> Null, via |-> ""]
    /\ started = [addRobot |-> 0, refreshRobot |-> 0]
    /\ clock = 0

\* The POST /dance requests the server handles at the same time, each with
\* a dance call of its own.
VARIABLES
    handlers            \* per request: where its dance call stands, and its locals

\* The requests followed.
MaxRequests == 2

\* A request not received yet.
IdleHandler ==
    [pc |-> "idle", selectedRobots |-> <<>>, served |-> 0, normalisedInvoice |-> Null,
     attempt |-> 0]

HandlersIdle == handlers = [h \in 1..MaxRequests |-> IdleHandler]

\* A function of the router taken alone: the call made and what it returned.
VARIABLES
    applied,            \* the function called, with its arguments
    result              \* what it returned or threw, once it did

appliedVars == <<applied, result>>

\* No function has been called.
NotApplied == [fn |-> ""]
NothingApplied ==
    /\ applied = NotApplied
    /\ result = Null

\* A buyCola call: where it stands, and its locals.
VARIABLES
    buyColaCall

\* No buyCola call has been made.
NoBuyCola ==
    [pc |-> "idle", request |-> Null, robot |-> Null, selection |-> Null, pricing |-> Null]

BuyColaIdle == buyColaCall = NoBuyCola

\* The client routes: the ledger endpoint of the payment service, a
\* verifyTransaction call and a POST /execute request being handled.
VARIABLES
    rpcUrl,             \* what _getRpcUrl() returns
    verifyCall,         \* verifyTransaction: where it stands, its arguments and locals
    executeCall         \* POST /execute: where it stands, its body and locals

clientVars == <<rpcUrl, verifyCall, executeCall>>

\* No verification has been asked for.
NoVerification ==
    [pc |-> "idle", signature |-> Undefined, expectedReceiver |-> Undefined,
     expectedAmount |-> Undefined, attempt |-> 0, lookups |-> 0, waited |-> 0,
     last |-> [kind |-> "", error |-> "", meta |-> ""], result |-> Null]

\* No request has been received.  forwarded is the history of the payment
\* signatures whose command was posted to a robot.
NoExecute ==
    [pc |-> "idle", body |-> Null, robot |-> Null, refundRequired |-> FALSE,
     executionResult |-> Null, status |-> 0, refunds |-> <<>>, forwarded |-> <<>>]

ClientIdle ==
    /\ verifyCall = NoVerification
    /\ executeCall = NoExecute

\* What a dance call, the parser, the registry, the request handlers, a
\* buyCola call and the client routes leave alone.
outsideDance == <<parseVars, registryVars, handlers, appliedVars, buyColaCall, clientVars>>
outsideParser == <<vars, registryVars, handlers, appliedVars, buyColaCall, clientVars>>
outsideRegistry == <<vars, parseVars, handlers, appliedVars, buyColaCall, clientVars>>
outsideHandlers == <<vars, parseVars, registryVars, appliedVars, buyColaCall, clientVars>>
outsideApplied == <<vars, parseVars, registryVars, handlers, buyColaCall, clientVars>>
outsideBuyCola == <<parseVars, registryVars, handlers, appliedVars, clientVars>>
outsideClient == <<parseVars, registryVars, handlers, appliedVars, buyColaCall>>
allVars == <<vars, parseVars, registryVars, handlers, appliedVars, buyColaCall, clientVars>>

(***************************************************************************)
(* Configuration read by createCommandRouter.                              *)
(***************************************************************************)
\* The ceiling used when maxAttempts is no integer.
DefaultMaxAttempts == 5

Max(a, b) == IF a >= b THEN a ELSE b

\* Number.isInteger(v), for the values the model configures.
IsInteger(v) == v.t = "number" /\ v # NaN

\* The ceiling taken as configured, without its floor of 1.
confirmMaxAttemptsUnclamped ==
    IF IsInteger(config.maxAttempts) THEN config.maxAttempts.n
    ELSE DefaultMaxAttempts

confirmMaxAttempts ==
    IF IsInteger(config.maxAttempts) THEN Max(1, config.maxAttempts.n)
    ELSE DefaultMaxAttempts

danceSelectionStrategy ==
    IF Truthy(config.selectionStrategy) THEN ToLowerCase(config.selectionStrategy.s)
    ELSE "lowest_price"

\* X402Service.isConfigured
isConfigured ==
    IF ~x402Service.privateKey THEN FALSE
    ELSE IF x402Service.paymentProvider = "solana-direct"
         THEN x402Service.directProviderReady
         ELSE TRUE

\* The outcomes of selectRobotsForDance: a thrown http error or the
\* selection (one outcome per order the random strategy can produce).
selectRobotsForDance(requestedCount) ==
    LET ready == SelectSeq(getRobotsByState(robots, "ready"), robotSupportsMoveDemo)
        orders ==
            CASE danceSelectionStrategy = "lowest_price" ->
                    {sortRobotsByPrice(ready, DANCE_METHOD_IDENTIFIERS, "asc")}
              [] danceSelectionStrategy = "highest_price" ->
                    {sortRobotsByPrice(ready, DANCE_METHOD_IDENTIFIERS, "desc")}
              [] danceSelectionStrategy = "random" -> shuffleArray(ready)
              [] OTHER -> {ready}
        quantity == ToNumber(requestedCount)
    IN  IF Len(ready) = 0
        THEN {[threw |-> TRUE, robots |-> <<>>,
               error |-> createHttpError(409, "No ready robots with move_demo capability available")]}
        ELSE IF requestedCount = Str("all")
        THEN {[threw |-> FALSE, robots |-> o, error |-> Null] : o \in orders}
        ELSE IF quantity \notin {Num(1), Num(2)}
        THEN {[threw |-> TRUE, robots |-> <<>>,
               error |-> createHttpError(400, "Dance quantity must be 1, 2, or all")]}
        ELSE IF Len(ready) < quantity.n
        THEN {[threw |-> TRUE, robots |-> <<>>,
               error |-> createHttpError(409, "Not enough ready robots with move_demo capability")]}
        ELSE {[threw |-> FALSE, robots |-> SubSeq(o, 1, quantity.n), error |-> Null] : o \in orders}

(***************************************************************************)
(* The settlement service (X402Service.settleInvoice and its backends).    *)
(***************************************************************************)
\* An error as the router reads it: error.message and error.response.
Failure(message, response) == [message |-> Str(message), response |-> response]

\* typeof amount === 'string' ? Number(amount) : amount
NumericAmount(amount) == IF amount.t = "string" THEN ToNumber(amount) ELSE amount

\* What settleInvoice throws before any settlement request or transaction
\* is issued, or Null when the invoice passes its checks.
settleInvoiceRejects(invoice) ==
    LET numericAmount == NumericAmount(invoice.amount)
    IN  IF ~isConfigured
        THEN Failure("x402 private key is not configured", Undefined)
        ELSE IF \/ ~Truthy(invoice.reference)
                \/ ~Truthy(invoice.receiver)
                \/ numericAmount.t # "number"
                \/ numericAmount = NaN
                \/ ~Truthy(invoice.asset)
        THEN Failure("Payment invoice is missing required fields", Undefined)
        ELSE IF x402Service.paymentProvider # "solana-direct" THEN Null
        ELSE IF invoice.asset # Str("SOL")
        THEN Failure("Unsupported asset", Undefined)
        ELSE IF numericAmount.n <= 0
        THEN Failure("Invalid payment amount", Undefined)
        ELSE IF numericAmount.n * LamportsPerMicro <= 0
        THEN Failure("Calculated lamports must be positive", Undefined)
        ELSE Null

\* The bodies a gateway answers a settlement request with: it may or may
\* not echo an amount.
GatewayReplies ==
    {[amount |-> Undefined, lamports |-> Undefined, signature |-> Str("gw-tx")],
     [amount |-> Str("0.2"), lamports |-> Undefined, signature |-> Str("gw-tx")]}

\* The settlements settleInvoice can return for the invoice.
settleInvoiceReturns(invoice) ==
    IF settleInvoiceRejects(invoice) # Null THEN {}
    ELSE IF x402Service.paymentProvider = "solana-direct"
    THEN {[provider |-> "solana-direct", signature |-> Str("sol-tx"),
           receiver |-> invoice.receiver, amount |-> NumericAmount(invoice.amount),
           asset |-> invoice.asset,
           lamports |-> Num(NumericAmount(invoice.amount).n * LamportsPerMicro)]}
    ELSE {[provider |-> "gateway", signature |-> data.signature,
           receiver |-> Undefined, amount |-> data.amount, asset |-> Undefined,
           lamports |-> data.lamports] : data \in GatewayReplies}

\* The errors settleInvoice can throw for the invoice: its own rejection,
\* or else a failed settlement request (an error answer of the gateway, no
\* answer at all, a failed transaction).
settleInvoiceThrows(invoice) ==
    IF settleInvoiceRejects(invoice) # Null THEN {settleInvoiceRejects(invoice)}
    ELSE IF x402Service.paymentProvider = "solana-direct"
    THEN {Failure("Transaction simulation failed", Undefined)}
    ELSE {Failure("Request failed with status code 402",
                  [status |-> 402, data |-> ErrorBody("insufficient funds")]),
          Failure("timeout of 10000ms exceeded", Undefined)}

(***************************************************************************)
(* What robots answer.                                                     *)
(***************************************************************************)
Response(status, data) == [status |-> status, data |-> data]

OkBody == [EmptyBody EXCEPT !.message = Str("move demo started")]

\* 402 bodies that carry an invoice: the current shape, and the legacy
\* shape with payTo for receiver and with an amount of 0 or no number.
BodyV2 == V2Body(<<Accept(Str("ref-1"), Str("wallet-A"), Str("0.1"), Str("SOL"))>>)
BodyLegacyZero == LegacyBody(Str("ref-3"), Undefined, Str("wallet-B"), Num(0), Str("USDC"))
BodyLegacyBadAmount == LegacyBody(Str("ref-4"), Str("wallet-B"), Undefined, Str("abc"), Str("SOL"))

\* 402 bodies that carry none.
BodyV2NoReference == V2Body(<<Accept(Undefined, Str("wallet-A"), Str("0.1"), Str("SOL"))>>)
BodyV2NoAccepts == V2Body(<<>>)
BodyLegacyNoAsset == LegacyBody(Str("ref-5"), Str("wallet-B"), Undefined, Str("0.1"), Undefined)
BodyLegacyNullAmount == LegacyBody(Str("ref-6"), Str("wallet-B"), Undefined, Null, Str("SOL"))
BodyNone == PlainBody(Str(""))

PaymentRequiredBodies ==
    {BodyV2, BodyLegacyZero, BodyLegacyBadAmount, BodyV2NoReference,
     BodyV2NoAccepts, BodyLegacyNoAsset, BodyLegacyNullAmount, BodyNone}

\* What a robot can answer to the unpaid request.
InitialResponses ==
    {Response(200, OkBody), Response(500, ErrorBody("motors offline"))}
    \cup {Response(402, b) : b \in PaymentRequiredBodies}

\* What a robot can answer to a paid retry: done, still unpaid (with the
\* same invoice or with a new one), or rejected.
PaidResponses ==
    {Response(200, OkBody), Response(402, BodyV2),
     Response(402, LegacyBody(Str("ref-9"), Str("wallet-C"), Undefined, Str("0.3"), Str("SOL"))),
     Response(403, ErrorBody("payment not found"))}

\* A request that got no response at all.
TransportFailures == {Failure("connect ECONNREFUSED", Undefined)}

(***************************************************************************)
(* driveCommand and executeMoveDemo.                                       *)
(***************************************************************************)
MoveDemoEndpoint == "/api/v1/robot/move_demo"

\* One entry of the history of requests: a command posted to a robot (with
\* the X-X402-Reference header it carried, Undefined when it carried none)
\* or a settleInvoice call made on behalf of a robot's handshake.
CommandRequest(robot, endpoint, reference) ==
    [kind |-> "command", robotId |-> robot.id, endpoint |-> endpoint,
     reference |-> reference, invoice |-> Null]

SettleRequest(robot, invoice) ==
    [kind |-> "settle", robotId |-> robot.id, endpoint |-> "",
     reference |-> Undefined, invoice |-> invoice]

\* driveCommand throws before anything is sent when the robot needs the
\* signed transport and the service cannot sign.
driveCommandCannotSend(robot) == robot.requiresX402 /\ ~isConfigured

\* The robot whose handshake is running: dance awaits each executeMoveDemo
\* before it takes the next robot of the selection.
CurrentRobot == selectedRobots[Len(responses) + 1]

methodBaseAmount(robot) ==
    getPricingAmount(findMethodEntry(robot, DANCE_METHOD_IDENTIFIERS))

selectionMeta(robot) ==
    [strategy |-> danceSelectionStrategy, price |-> methodBaseAmount(robot)]

\* data.error || data.message || fallback
ErrorText(data, fallback) == OrElse(OrElse(data.error, data.message), Str(fallback))

\* data || null
DataOrNull(data) == IF Truthy(data.raw) THEN data ELSE Null

Entry(robot, status, stage, error, httpStatus, response, invoice, payment, attempts, pricing, selection) ==
    [robotId |-> robot.id, status |-> status, stage |-> stage, error |-> error,
     httpStatus |-> httpStatus, response |-> response, invoice |-> invoice,
     payment |-> payment, attempts |-> attempts, pricing |-> pricing,
     selection |-> selection]

\* The entry dance's catch block pushes when executeMoveDemo threw.
CaughtEntry(robot, error) ==
    Entry(robot, "failed", "transport", error.message, Undefined, Undefined,
          Null, Null, 0, summarisePricing(Null, markupPercent),
          [strategy |-> danceSelectionStrategy, price |-> Null])

\* The loop condition with its comparison off by one.
LoopContinuesOffByOne(n) == n <= confirmMaxAttempts

\* A loop with no ceiling: it goes on until the robot confirms or rejects.
LoopContinuesWhileUnconfirmed(n) == TRUE

\* while (attempt < confirmMaxAttempts)
LoopContinues(n) == n < confirmMaxAttempts

\* The loop with its first break only: a rejection is retried like a 402.
LoopBreaksOnlyOn200(response) == response.status = 200

\* The two breaks of the confirmation loop: a 200, or any status but 402.
LoopBreaks(response) == response.status = 200 \/ response.status # 402

\* The checks made on the parsed invoice before it is settled.
InvoiceIncomplete(invoice) ==
    \/ invoice = Null
    \/ ~Truthy(invoice.reference)
    \/ ~Truthy(invoice.receiver)
    \/ invoice.asset = Undefined
    \/ invoice.amount = Undefined

\* The result for the unpaid request with the 402 test made first: a 200
\* is then one more unexpected status.
InitialOutcomeTests402First(robot, initialResponse) ==
    IF initialResponse.status # 402
    THEN Entry(robot, "failed", "initial",
               ErrorText(initialResponse.data, "Unexpected robot response"),
               Num(initialResponse.status), initialResponse.data,
               DataOrNull(initialResponse.data), Null, 0,
               summarisePricing(methodBaseAmount(robot), markupPercent),
               selectionMeta(robot))
    ELSE Entry(robot, "failed", "payment_initiation",
               Str("Missing payment fields in robot 402 response"),
               Num(initialResponse.status), initialResponse.data,
               DataOrNull(initialResponse.data), Null, 0,
               summarisePricing(methodBaseAmount(robot), markupPercent),
               selectionMeta(robot))

\* executeMoveDemo's result for the answer to the unpaid request, when the
\* handshake ends there.
InitialOutcome(robot, initialResponse) ==
    IF initialResponse.status = 200
    THEN Entry(robot, "success", "completed", Undefined, Undefined,
               initialResponse.data, Null, Null, 0,
               summarisePricing(methodBaseAmount(robot), markupPercent),
               selectionMeta(robot))
    ELSE IF initialResponse.status # 402
    THEN Entry(robot, "failed", "initial",
               ErrorText(initialResponse.data, "Unexpected robot response"),
               Num(initialResponse.status), initialResponse.data,
               DataOrNull(initialResponse.data), Null, 0,
               summarisePricing(methodBaseAmount(robot), markupPercent),
               selectionMeta(robot))
    ELSE Entry(robot, "failed", "payment_initiation",
               Str("Missing payment fields in robot 402 response"),
               Num(initialResponse.status), initialResponse.data,
               DataOrNull(initialResponse.data), Null, 0,
               summarisePricing(methodBaseAmount(robot), markupPercent),
               selectionMeta(robot))

\* executeMoveDemo's result when settleInvoice threw.
SettlementFailedOutcome(robot, invoice, error) ==
    Entry(robot, "failed", "payment_settlement",
          IF error.response # Undefined /\ Truthy(error.response.data.error)
          THEN error.response.data.error
          ELSE OrElse(error.message, Str("Payment settlement failed")),
          IF error.response # Undefined THEN Num(error.response.status) ELSE Undefined,
          IF error.response # Undefined THEN error.response.data ELSE Undefined,
          invoice, Null, 0,
          summarisePricing(deriveBaseAmount(Null, invoice, methodBaseAmount(robot)),
                           markupPercent),
          selectionMeta(robot))

\* if (attempt < confirmMaxAttempts) await delay(confirmDelayMs)
DelayNeeded(n) == n < confirmMaxAttempts

\* The result of the confirmation loop with the attempts counted from zero.
ConfirmationOutcomeZeroBased(robot, invoice, paid, attempts, final) ==
    LET pricing == summarisePricing(
                       deriveBaseAmount(paid, invoice, methodBaseAmount(robot)),
                       markupPercent)
    IN  IF final = Null
        THEN Entry(robot, "failed", "payment_confirmation",
                   Str("Robot did not respond to payment confirmation"),
                   Undefined, Undefined, invoice, paid, attempts - 1, pricing,
                   selectionMeta(robot))
        ELSE IF final.status = 200
        THEN Entry(robot, "success", "payment_confirmed", Undefined, Undefined,
                   final.data, invoice, paid, attempts - 1, pricing,
                   selectionMeta(robot))
        ELSE Entry(robot, "failed", "payment_confirmation",
                   ErrorText(final.data, "Robot rejected payment confirmation"),
                   Num(final.status), final.data, invoice, paid, attempts - 1,
                   pricing, selectionMeta(robot))

\* executeMoveDemo's result once the confirmation loop is left; final is
\* Null when the loop posted nothing.
ConfirmationOutcome(robot, invoice, paid, attempts, final) ==
    LET pricing == summarisePricing(
                       deriveBaseAmount(paid, invoice, methodBaseAmount(robot)),
                       markupPercent)
    IN  IF final = Null
        THEN Entry(robot, "failed", "payment_confirmation",
                   Str("Robot did not respond to payment confirmation"),
                   Undefined, Undefined, invoice, paid, attempts, pricing,
                   selectionMeta(robot))
        ELSE IF final.status = 200
        THEN Entry(robot, "success", "payment_confirmed", Undefined, Undefined,
                   final.data, invoice, paid, attempts, pricing,
                   selectionMeta(robot))
        ELSE Entry(robot, "failed", "payment_confirmation",
                   ErrorText(final.data, "Robot rejected payment confirmation"),
                   Num(final.status), final.data, invoice, paid, attempts,
                   pricing, selectionMeta(robot))

(***************************************************************************)
(* Initial states: a configuration, a settlement service and a registry.   *)
(***************************************************************************)
Robot(id, requiresX402, state, methods) ==
    [id |-> id, requiresX402 |-> requiresX402,
     status |-> [state |-> state, availableMethods |-> methods],
     location |-> Null]

PricedMoveDemo(path, amount) == DetailedMethod(path, "", "", amount)

\* Two ready robots that price the move demo, and one out of reach.
RegistryPriced ==
    <<Robot("r1", FALSE, "ready", <<PricedMoveDemo("/api/v1/robot/move_demo", Str("0.2"))>>),
      Robot("r2", TRUE, "ready", <<PricedMoveDemo("/API/V1/ROBOT/MOVE_DEMO", Num(100000))>>),
      Robot("r3", FALSE, "unreachable", <<>>)>>

\* Two ready robots that advertise the move demo without a price, and one
\* never probed successfully.
RegistryUnpriced ==
    <<Robot("r1", FALSE, "ready", <<SimpleMethod("move_demo")>>),
      Robot("r2", FALSE, "unknown", <<PricedMoveDemo("/api/v1/robot/move_demo", Str("0.1"))>>),
      Robot("r3", FALSE, "ready",
            <<DetailedMethod("/status", "Move demo routine", "", Undefined),
              DetailedMethod("/commands/buy-cola", "", "", Str("0.3"))>>)>>

\* One ready robot, which cannot dance.
RegistryNoDancer ==
    <<Robot("r1", FALSE, "ready", <<DetailedMethod("/commands/buy-cola", "", "", Str("0.3"))>>)>>

Registries == {RegistryPriced, RegistryUnpriced, RegistryNoDancer}

\* Every ceiling with the default strategy, every strategy with a ceiling
\* of one attempt.
Configurations ==
    {[maxAttempts |-> m, selectionStrategy |-> Undefined,
     buyColaSelectionStrategy |-> Undefined] :
        m \in {Undefined} \cup {Num(k) : k \in 0..MaxConfiguredAttempts}}
    \cup {[maxAttempts |-> Num(1), selectionStrategy |-> st,
     buyColaSelectionStrategy |-> Undefined] :
            st \in {Str("highest_price"), Str("RANDOM"), Str("sequential")}}

Services ==
    {[privateKey |-> TRUE, paymentProvider |-> "gateway", directProviderReady |-> FALSE],
     [privateKey |-> TRUE, paymentProvider |-> "solana-direct", directProviderReady |-> TRUE],
     [privateKey |-> FALSE, paymentProvider |-> "gateway", directProviderReady |-> FALSE]}

\* The { quantity, mode } bodies posted to /dance.
DanceRequests ==
    {[quantity |-> Num(1), mode |-> Undefined],
     [quantity |-> Num(2), mode |-> Str("all")],
     [quantity |-> Num(3), mode |-> Undefined],
     [quantity |-> Str("all"), mode |-> Undefined],
     [quantity |-> Undefined, mode |-> Str("all")],
     [quantity |-> Undefined, mode |-> Undefined]}

\* executeMoveDemo's locals outside a handshake.
NoFrame ==
    /\ normalisedInvoice' = Null
    /\ settlement' = Null
    /\ attempt' = 0
    /\ finalResponse' = Null

Init ==
    /\ config \in Configurations
    /\ x402Service \in Services
    /\ robots \in Registries
    /\ pc = "idle"
    /\ selectedRobots = <<>>
    /\ responses = <<>>
    /\ normalisedInvoice = Null
    /\ settlement = Null
    /\ attempt = 0
    /\ finalResponse = Null
    /\ returned = Null
    /\ sent = <<>>
    /\ settled = <<>>
    /\ ParserIdle
    /\ RegistryEmpty
    /\ HandlersIdle
    /\ NothingApplied
    /\ BuyColaIdle
    /\ rpcUrl = Undefined
    /\ ClientIdle

(***************************************************************************)
(* The dance call, one action per step between two awaits.                 *)
(***************************************************************************)
\* dance({quantity, mode}) up to its loop: the input check and the selection.
Dance(request) ==
    /\ pc = "idle"
    /\ LET selectionInput ==
               IF Present(request.quantity) THEN request.quantity ELSE request.mode
       IN  IF ~Truthy(selectionInput)
           THEN /\ returned' = [threw |-> TRUE,
                                error |-> createHttpError(400, "Dance quantity is required")]
                /\ pc' = "rejected"
                /\ UNCHANGED selectedRobots
           ELSE \E outcome \in selectRobotsForDance(selectionInput) :
                    IF outcome.threw
                    THEN /\ returned' = [threw |-> TRUE, error |-> outcome.error]
                         /\ pc' = "rejected"
                         /\ UNCHANGED selectedRobots
                    ELSE /\ selectedRobots' = outcome.robots
                         /\ pc' = "loop"
                         /\ UNCHANGED returned
    /\ UNCHANGED <<config, x402Service, robots, responses, normalisedInvoice,
                   settlement, attempt, finalResponse, sent, settled>>
    /\ UNCHANGED outsideDance

\* The handshake of the current robot ends with this entry pushed.
Push(entry) ==
    /\ responses' = Append(responses, entry)
    /\ pc' = "loop"
    /\ NoFrame

\* The handshakes started together: the unpaid request goes to every robot
\* still to be served before any of them has answered.
SendInitialToAll ==
    /\ pc = "loop"
    /\ Len(responses) < Len(selectedRobots)
    /\ sent' = sent \o [k \in 1..(Len(selectedRobots) - Len(responses)) |->
                            CommandRequest(selectedRobots[Len(responses) + k],
                                           MoveDemoEndpoint, Undefined)]
    /\ pc' = "initial"
    /\ UNCHANGED <<config, x402Service, robots, selectedRobots, responses,
                   normalisedInvoice, settlement, attempt, finalResponse,
                   returned, settled>>
    /\ UNCHANGED outsideDance

\* The loop takes the next robot: executeMoveDemo posts the unpaid request.
SendInitial ==
    /\ pc = "loop"
    /\ Len(responses) < Len(selectedRobots)
    /\ IF driveCommandCannotSend(CurrentRobot)
       THEN /\ Push(CaughtEntry(CurrentRobot,
                                Failure("x402 private key is not configured", Undefined)))
            /\ UNCHANGED sent
       ELSE /\ sent' = Append(sent, CommandRequest(CurrentRobot, MoveDemoEndpoint, Undefined))
            /\ pc' = "initial"
            /\ UNCHANGED <<responses, normalisedInvoice, settlement, attempt, finalResponse>>
    /\ UNCHANGED <<config, x402Service, robots, selectedRobots, returned, settled>>
    /\ UNCHANGED outsideDance

\* The robot answers the unpaid request.
InitialResponse(initialResponse) ==
    /\ pc = "initial"
    /\ LET invoice == parse402PaymentRequest(initialResponse.data)
       IN  IF initialResponse.status # 402 \/ InvoiceIncomplete(invoice)
           THEN /\ Push(InitialOutcome(CurrentRobot, initialResponse))
                /\ UNCHANGED sent
           ELSE /\ normalisedInvoice' = Invoice(invoice.reference, invoice.receiver,
                                                invoice.amount, invoice.asset)
                /\ sent' = Append(sent, SettleRequest(CurrentRobot, normalisedInvoice'))
                /\ pc' = "settling"
                /\ UNCHANGED <<responses, settlement, attempt, finalResponse>>
    /\ UNCHANGED <<config, x402Service, robots, selectedRobots, returned, settled>>
    /\ UNCHANGED outsideDance

\* dance without its try around executeMoveDemo: the error of the unpaid
\* request leaves the loop and the call.
InitialTransportFailureAborts(error) ==
    /\ pc = "initial"
    /\ returned' = [threw |-> TRUE, error |-> error]
    /\ pc' = "rejected"
    /\ NoFrame
    /\ UNCHANGED <<config, x402Service, robots, selectedRobots, responses, sent, settled>>
    /\ UNCHANGED outsideDance

\* The unpaid request gets no response: driveCommand throws, executeMoveDemo
\* does not catch, dance does.
InitialTransportFailure(error) ==
    /\ pc = "initial"
    /\ Push(CaughtEntry(CurrentRobot, error))
    /\ UNCHANGED <<config, x402Service, robots, selectedRobots, returned, sent, settled>>
    /\ UNCHANGED outsideDance

\* A confirmation loop that takes the reference from the latest 402.
ConfirmationTurnLatestReference(n, paid, final) ==
    IF ~LoopContinues(n)
    THEN /\ Push(ConfirmationOutcome(CurrentRobot, normalisedInvoice, paid, n, final))
         /\ UNCHANGED sent
    ELSE IF driveCommandCannotSend(CurrentRobot)
    THEN /\ Push(CaughtEntry(CurrentRobot,
                             Failure("x402 private key is not configured", Undefined)))
         /\ UNCHANGED sent
    ELSE /\ attempt' = n + 1
         /\ settlement' = paid
         /\ finalResponse' = final
         /\ sent' = Append(sent, CommandRequest(CurrentRobot, MoveDemoEndpoint,
                              IF final # Null /\ final.status = 402
                                 /\ parse402PaymentRequest(final.data) # Null
                              THEN parse402PaymentRequest(final.data).reference
                              ELSE normalisedInvoice.reference))
         /\ pc' = "confirming"
         /\ UNCHANGED <<responses, normalisedInvoice>>

\* The confirmation loop's condition is evaluated with the counter at n,
\* the settlement paid and the last paid response final: the next paid
\* retry is posted, or the loop is left and executeMoveDemo returns.
ConfirmationTurn(n, paid, final) ==
    IF ~LoopContinues(n)
    THEN /\ Push(ConfirmationOutcome(CurrentRobot, normalisedInvoice, paid, n, final))
         /\ UNCHANGED sent
    ELSE IF driveCommandCannotSend(CurrentRobot)
    THEN /\ Push(CaughtEntry(CurrentRobot,
                             Failure("x402 private key is not configured", Undefined)))
         /\ UNCHANGED sent
    ELSE /\ attempt' = n + 1
         /\ settlement' = paid
         /\ finalResponse' = final
         /\ sent' = Append(sent, CommandRequest(CurrentRobot, MoveDemoEndpoint,
                                                normalisedInvoice.reference))
         /\ pc' = "confirming"
         /\ UNCHANGED <<responses, normalisedInvoice>>

\* settleInvoice returns a settlement: the confirmation loop starts.
SettleReturns ==
    /\ pc = "settling"
    /\ \E paid \in settleInvoiceReturns(normalisedInvoice) :
        /\ settled' = Append(settled, [robotId |-> CurrentRobot.id, settlement |-> paid])
        /\ ConfirmationTurn(0, paid, Null)
    /\ UNCHANGED <<config, x402Service, robots, selectedRobots, returned>>
    /\ UNCHANGED outsideDance

\* A settlement that threw is tried again.
SettleThrowsAndRetries ==
    /\ pc = "settling"
    /\ settleInvoiceThrows(normalisedInvoice) # {}
    /\ sent' = Append(sent, SettleRequest(CurrentRobot, normalisedInvoice))
    /\ UNCHANGED <<config, x402Service, robots, pc, selectedRobots, responses,
                   normalisedInvoice, settlement, attempt, finalResponse,
                   returned, settled>>
    /\ UNCHANGED outsideDance

\* The catch of the settlement error without its return: the handshake
\* goes on into the confirmation loop.
SettleThrowsFallsThrough ==
    /\ pc = "settling"
    /\ settleInvoiceThrows(normalisedInvoice) # {}
    /\ ConfirmationTurn(0, Null, Null)
    /\ UNCHANGED <<config, x402Service, robots, selectedRobots, returned, settled>>
    /\ UNCHANGED outsideDance

\* settleInvoice throws.
SettleThrows ==
    /\ pc = "settling"
    /\ \E error \in settleInvoiceThrows(normalisedInvoice) :
        Push(SettlementFailedOutcome(CurrentRobot, normalisedInvoice, error))
    /\ UNCHANGED <<config, x402Service, robots, selectedRobots, returned, sent, settled>>
    /\ UNCHANGED outsideDance

\* The robot answers a paid retry.
PaidResponse(paymentResponse) ==
    /\ pc = "confirming"
    /\ IF LoopBreaks(paymentResponse)
       THEN /\ Push(ConfirmationOutcome(CurrentRobot, normalisedInvoice, settlement,
                                        attempt, paymentResponse))
            /\ UNCHANGED sent
       ELSE IF DelayNeeded(attempt)
       THEN /\ finalResponse' = paymentResponse
            /\ pc' = "delay"
            /\ UNCHANGED <<responses, normalisedInvoice, settlement, attempt, sent>>
       ELSE ConfirmationTurn(attempt, settlement, paymentResponse)
    /\ UNCHANGED <<config, x402Service, robots, selectedRobots, returned, settled>>
    /\ UNCHANGED outsideDance

\* A paid retry gets no response: driveCommand throws out of the loop and
\* out of executeMoveDemo, and dance's catch block pushes the entry.
PaidTransportFailure(error) ==
    /\ pc = "confirming"
    /\ Push(CaughtEntry(CurrentRobot, error))
    /\ UNCHANGED <<config, x402Service, robots, selectedRobots, returned, sent, settled>>
    /\ UNCHANGED outsideDance

\* The delay between two attempts is over: the loop goes round.
DelayElapsed ==
    /\ pc = "delay"
    /\ ConfirmationTurn(attempt, settlement, finalResponse)
    /\ UNCHANGED <<config, x402Service, robots, selectedRobots, returned, settled>>
    /\ UNCHANGED outsideDance

\* The sum dance takes over the entries: the base amounts of the successes.
RECURSIVE TotalRobotCost(_)
TotalRobotCost(entries) ==
    IF entries = <<>> THEN 0
    ELSE TotalRobotCost(SubSeq(entries, 1, Len(entries) - 1))
         + (LET entry == entries[Len(entries)]
            IN  IF entry.pricing # Null /\ entry.status = "success"
                THEN entry.pricing.baseAmount ELSE 0)

\* The amounts the sum is made of, in the order they are added.
RECURSIVE SuccessAmounts(_)
SuccessAmounts(entries) ==
    IF entries = <<>> THEN <<>>
    ELSE (IF Head(entries).pricing # Null /\ Head(entries).status = "success"
          THEN <<Head(entries).pricing.baseAmount>> ELSE <<>>)
         \o SuccessAmounts(Tail(entries))

\* The summary dance returns with the results.
Summary(entries, selection) ==
    LET totalRobotCost == TotalRobotCost(entries)
    IN  [selectionStrategy |-> danceSelectionStrategy,
         markupPercent |-> markupPercent,
         totalRobotCost |-> IF totalRobotCost > 0 THEN totalRobotCost ELSE 0,
         suggestedPrice |-> IF totalRobotCost > 0
                            THEN Num(RoundedMarkupOfSum(SuccessAmounts(entries),
                                                        markupPercent))
                            ELSE Null,
         robotsSelected |-> [i \in 1..Len(selection) |-> selection[i].id]]

\* Every selected robot has its entry: dance returns.
DanceReturns ==
    /\ pc = "loop"
    /\ Len(responses) = Len(selectedRobots)
    /\ returned' = [threw |-> FALSE, results |-> responses,
                    summary |-> Summary(responses, selectedRobots)]
    /\ pc' = "returned"
    /\ UNCHANGED <<config, x402Service, robots, selectedRobots, responses,
                   normalisedInvoice, settlement, attempt, finalResponse, sent,
                   settled>>
    /\ UNCHANGED outsideDance

Next ==
    \/ \E request \in DanceRequests : Dance(request)
    \/ SendInitial
    \/ \E initialResponse \in InitialResponses : InitialResponse(initialResponse)
    \/ \E error \in TransportFailures : InitialTransportFailure(error)
    \/ SettleReturns
    \/ SettleThrows
    \/ \E paymentResponse \in PaidResponses : PaidResponse(paymentResponse)
    \/ \E error \in TransportFailures : PaidTransportFailure(error)
    \/ DelayElapsed
    \/ DanceReturns

Spec == Init /\ [][Next]_vars

(***************************************************************************)
(* The router with no dance call under way.                                *)
(***************************************************************************)
DanceIdle ==
    /\ config = [maxAttempts |-> Undefined, selectionStrategy |-> Undefined,
     buyColaSelectionStrategy |-> Undefined]
    /\ robots = <<>>
    /\ pc = "idle"
    /\ selectedRobots = <<>>
    /\ responses = <<>>
    /\ normalisedInvoice = Null
    /\ settlement = Null
    /\ attempt = 0
    /\ finalResponse = Null
    /\ returned = Null
    /\ sent = <<>>
    /\ settled = <<>>

(***************************************************************************)
(* parse402PaymentRequest on the bodies a robot can send with a 402.       *)
(***************************************************************************)
\* accepts[0] of a current-shape body: each value given or left out.
AcceptsEntries ==
    {Accept(ref, payTo, amount, asset) :
        ref \in {Undefined, Str(""), Str("ref-1")},
        payTo \in {Undefined, Str("wallet-A")},
        amount \in {Undefined, Null, Num(0), Str("0.1")},
        asset \in {Undefined, Str("SOL")}}

\* The top-level values of the legacy shape: each given or left out.
LegacyBodies ==
    {LegacyBody(ref, receiver, payTo, amount, asset) :
        ref \in {Undefined, Str("ref-9")},
        receiver \in {Undefined, Str("wallet-B")},
        payTo \in {Undefined, Str("wallet-C")},
        amount \in {Undefined, Null, Num(0), Str("0.3")},
        asset \in {Undefined, Str("USDC")}}

\* Bodies of either shape, of both at once, of neither, with the version
\* field right, wrong or missing, and bodies that are no object.
PaymentRequiredData ==
    LegacyBodies
    \cup {[b EXCEPT !.x402Version = Num(2), !.acceptsIsArray = TRUE, !.accepts = <<a>>] :
            b \in LegacyBodies, a \in AcceptsEntries}
    \cup {[b EXCEPT !.x402Version = v, !.acceptsIsArray = TRUE, !.accepts = acc] :
            b \in {EmptyBody, LegacyBody(Str("ref-9"), Str("wallet-B"), Undefined,
                                         Str("0.3"), Str("USDC"))},
            v \in {Undefined, Num(1), Num(2), Str("2")},
            acc \in {<<>>, <<Accept(Str("ref-1"), Str("wallet-A"), Str("0.1"), Str("SOL"))>>}}
    \cup {PlainBody(v) : v \in {Undefined, Null, Str(""), Str("Payment Required")}}

InitParse ==
    /\ DanceIdle
    /\ x402Service = [privateKey |-> TRUE, paymentProvider |-> "gateway",
                      directProviderReady |-> FALSE]
    /\ RegistryEmpty
    /\ HandlersIdle
    /\ NothingApplied
    /\ BuyColaIdle
    /\ rpcUrl = Undefined
    /\ ClientIdle
    /\ paymentRequired \in PaymentRequiredData
    /\ parsedInvoice = Undefined

\* parse402PaymentRequest(data) returns.
Parse402 ==
    /\ parsedInvoice = Undefined
    /\ parsedInvoice' = parse402PaymentRequest(paymentRequired)
    /\ UNCHANGED <<outsideParser, paymentRequired>>

NextParse == Parse402

SpecParse == InitParse /\ [][NextParse]_allVars

(***************************************************************************)
(* The registry and the health monitor.                                    *)
(***************************************************************************)
MaxRobots == 1
MaxRefreshes == 1
MaxUpdates == 1

\* The reference that is no object: what Map.get gives for a missing key,
\* read through `|| null`.
NoRobot == 0

\* RobotRegistry.getById: the object the map holds under the id.
getById(robotId) ==
    IF \E i \in 1..Len(robotsMap) : robotsMap[i].id = robotId
    THEN robotsMap[CHOOSE i \in 1..Len(robotsMap) : robotsMap[i].id = robotId].robot
    ELSE NoRobot

\* uuid(): an id no robot was given before.
NextRobotId == Cardinality({objects[i].id : i \in 1..Len(objects)}) + 1

\* The record addRobot builds (its name, host and port left out: nothing
\* modelled reads them).
NewRobot(id, requiresX402) ==
    [id |-> id, requiresX402 |-> requiresX402,
     status |-> [state |-> Str("unknown"),
                 message |-> Str("Awaiting first health check"),
                 availableMethods |-> <<>>,
                 secure |-> Undefined],
     lastHealthCheckAt |-> Null,
     location |-> Null]

\* config.robots: the health endpoints (their defaults).
defaultHealthEndpoint == "/health"
defaultSecureHealthEndpoint == "/helth"

buildHealthUrls ==
    IF defaultSecureHealthEndpoint # defaultHealthEndpoint
    THEN <<defaultHealthEndpoint, defaultSecureHealthEndpoint>>
    ELSE <<defaultHealthEndpoint>>

\* A call awaiting a health request: its number, the call (op), the
\* robot's id, the object refreshRobot read from the map and handed to
\* probe, the public url requested (0 when the request is the signed one)
\* and probe's lastError.
Task(n, op, robotId, robot, url, lastError) ==
    [n |-> n, op |-> op, robotId |-> robotId, robot |-> robot, url |-> url,
     lastError |-> lastError]

\* probe losing the error: the message is always the default one.
UnreachableWithoutMessage(robot, lastError) ==
    ProbeStatus(Str("unreachable"), Str("Health check failed"), <<>>, Null,
                Bool(robot.requiresX402))

\* The status probe returns when every request failed.
Unreachable(robot, lastError) ==
    ProbeStatus(Str("unreachable"),
                IF lastError # Null THEN lastError ELSE Str("Health check failed"),
                <<>>, Null, Bool(robot.requiresX402))

\* The status as updateStatus stores it.
StoredStatus(status) ==
    [state |-> status.state,
     message |-> OrElse(status.message, Str("")),
     availableMethods |-> status.availableMethods,
     secure |-> IF Present(status.secure) THEN status.secure ELSE False]

\* updateStatus on the object the map holds: its status replaced, its
\* location kept unless the probe gave one, its timestamp set.
StatusUpdated(robot, status, now) ==
    [robot EXCEPT !.status = StoredStatus(status),
                  !.location = OrElse(status.location, robot.location),
                  !.lastHealthCheckAt = Num(now)]


\* refreshRobot after its await: probe returned the status over the path
\* `via`.  updateStatus stores it in the object the map holds now, or
\* throws when the map holds none; refreshRobot returns that object, and
\* addRobot around it catches the throw and returns getById(id).
ProbeReturns(task, status, via) ==
    LET robot == getById(task.robotId)
        stored == IF robot # NoRobot
                  THEN [objects EXCEPT ![robot] = StatusUpdated(objects[robot], status, clock + 1)]
                  ELSE objects
    IN  /\ objects' = stored
        /\ clock' = IF robot # NoRobot THEN clock + 1 ELSE clock
        /\ tasks' = {t \in tasks : t.n # task.n}
        /\ ended' = [op |-> task.op, robotId |-> task.robotId,
                     threw |-> (robot = NoRobot /\ task.op = "refreshRobot"),
                     value |-> robot,
                     record |-> IF robot # NoRobot THEN stored[robot] ELSE Null,
                     probe |-> status, via |-> via]
        /\ UNCHANGED <<robotsMap, listed, listedThen, started>>

\* The calls started so far.
CallsStarted == started.addRobot + started.refreshRobot

\* addRobot up to its await: the record is built and set in the map, and
\* refreshRobot hands it to probe, which requests the first url.
AddRobot(requiresX402) ==
    /\ NextRobotId <= MaxRobots
    /\ objects' = Append(objects, NewRobot(NextRobotId, requiresX402))
    /\ robotsMap' = Append(robotsMap, [id |-> NextRobotId, robot |-> Len(objects) + 1])
    /\ tasks' = tasks \cup {Task(CallsStarted + 1, "addRobot", NextRobotId,
                                  Len(objects) + 1, 1, Null)}
    /\ started' = [started EXCEPT !.addRobot = @ + 1]
    /\ UNCHANGED <<outsideRegistry, listed, listedThen, ended, clock>>

\* refreshRobot(robotId) up to its await, or to its throw.
RefreshRobot(robotId) ==
    /\ started.refreshRobot < MaxRefreshes
    /\ started' = [started EXCEPT !.refreshRobot = @ + 1]
    /\ IF getById(robotId) = NoRobot
       THEN /\ ended' = [op |-> "refreshRobot", robotId |-> robotId, threw |-> TRUE,
                         value |-> NoRobot, record |-> Null, probe |-> Null, via |-> ""]
            /\ UNCHANGED tasks
       ELSE /\ tasks' = tasks \cup {Task(CallsStarted + 1, "refreshRobot", robotId,
                                          getById(robotId), 1, Null)}
            /\ UNCHANGED ended
    /\ UNCHANGED <<outsideRegistry, objects, robotsMap, listed, listedThen, clock>>

\* A public health request is answered: probe normalises the payload.
HealthResponds(payload) ==
    /\ \E task \in tasks :
        /\ task.url > 0
        /\ ProbeReturns(task, normalizeHealthPayload(payload, Str("Responded"), False),
                        "public")
    /\ UNCHANGED outsideRegistry

\* A public health request fails: the next url is requested; after the
\* last, the signed request is made if the robot needs it and the service
\* can sign; else probe returns unreachable.
HealthFails(message) ==
    /\ \E task \in tasks :
        /\ task.url > 0
        /\ LET failed == [task EXCEPT !.lastError = message]
           IN  IF task.url < Len(buildHealthUrls)
               THEN /\ tasks' = (tasks \ {task}) \cup {[failed EXCEPT !.url = task.url + 1]}
                    /\ UNCHANGED <<objects, robotsMap, listed, listedThen, ended,
                                   started, clock>>
               ELSE IF objects[task.robot].requiresX402 /\ isConfigured
               THEN /\ tasks' = (tasks \ {task}) \cup {[failed EXCEPT !.url = 0]}
                    /\ UNCHANGED <<objects, robotsMap, listed, listedThen, ended,
                                   started, clock>>
               ELSE ProbeReturns(failed, Unreachable(objects[task.robot], failed.lastError),
                                 "none")
    /\ UNCHANGED outsideRegistry

\* The signed health request is answered.
SecuredHealthResponds(payload) ==
    /\ \E task \in tasks :
        /\ task.url = 0
        /\ ProbeReturns(task,
                        normalizeHealthPayload(payload, Str("Responded via x402"), True),
                        "secure")
    /\ UNCHANGED outsideRegistry

\* The signed health request fails.
SecuredHealthFails(message) ==
    /\ \E task \in tasks :
        /\ task.url = 0
        /\ LET failed == [task EXCEPT !.lastError = message]
           IN  ProbeReturns(failed, Unreachable(objects[task.robot], failed.lastError),
                            "none")
    /\ UNCHANGED outsideRegistry

\* removeRobot(robotId) of a registered robot: Map.delete.
RemoveRobot(robotId) ==
    /\ getById(robotId) # NoRobot
    /\ LET others(entry) == entry.id # robotId
       IN  robotsMap' = SelectSeq(robotsMap, others)
    /\ UNCHANGED <<outsideRegistry, objects, tasks, listed, listedThen, ended, started, clock>>

\* The body of a PUT /:robotId: the keys it gives (fields, and statusFields
\* under status) with their values.
Updates(fields, id, requiresX402, statusFields, state, secure) ==
    [fields |-> fields, id |-> id, requiresX402 |-> requiresX402,
     statusFields |-> statusFields, state |-> state, secure |-> secure]

\* { ...robot, ...updates, status: { ...robot.status, ...(updates.status || {}) } }
Merged(robot, updates) ==
    [robot EXCEPT
        !.id = IF "id" \in updates.fields THEN updates.id ELSE @,
        !.requiresX402 = IF "requiresX402" \in updates.fields
                         THEN updates.requiresX402 ELSE @,
        !.status = [@ EXCEPT
            !.state = IF "status" \in updates.fields /\ "state" \in updates.statusFields
                      THEN updates.state ELSE @,
            !.secure = IF "status" \in updates.fields /\ "secure" \in updates.statusFields
                       THEN updates.secure ELSE @]]

\* The updateRobot calls made so far: each allocated the merged object.
UpdatesMade == Len(objects) - (NextRobotId - 1)

\* updateRobot(robotId, updates) of a registered robot: the merged copy
\* takes the place of the object in the map.
UpdateRobot(robotId, updates) ==
    /\ getById(robotId) # NoRobot
    /\ UpdatesMade < MaxUpdates
    /\ objects' = Append(objects, Merged(objects[getById(robotId)], updates))
    /\ robotsMap' = [i \in 1..Len(robotsMap) |->
                        IF robotsMap[i].id = robotId
                        THEN [robotsMap[i] EXCEPT !.robot = Len(objects) + 1]
                        ELSE robotsMap[i]]
    /\ UNCHANGED <<outsideRegistry, tasks, listed, listedThen, ended, started, clock>>

\* list(): Array.from(this.robots.values()), an array of the objects the
\* map holds.  One call is followed.
List ==
    /\ ~listed.returned
    /\ robotsMap # <<>>
    /\ listed' = [returned |-> TRUE,
                  array |-> [i \in 1..Len(robotsMap) |-> robotsMap[i].robot]]
    /\ listedThen' = [i \in 1..Len(robotsMap) |-> objects[robotsMap[i].robot]]
    /\ UNCHANGED <<outsideRegistry, objects, robotsMap, tasks, ended, started, clock>>

\* What a robot answers to a health request: its status with its methods
\* (the health endpoint among them), a bare text, or an envelope whose
\* data holds a status of its own and methods named after the health
\* endpoint in other ways.
HealthPayloads ==
    {HealthPayload(Obj,
        HealthFields(Str("ready"), Str("Ready for commands"), TRUE,
                     <<MethodDescriptor(<<"/", "api", "/", "move_demo">>, <<>>),
                       MethodName(<<" ", "/", "Health", " ">>),
                       MethodDescriptor(<<"/", "API", "/", "HEALTH">>, <<>>),
                       MethodDescriptor(<<>>, <<"health">>)>>,
                     Undefined),
        FALSE, NoHealthFields),
     HealthPayload(Str("OK"), NoHealthFields, FALSE, NoHealthFields),
     HealthPayload(Obj,
        HealthFields(Undefined, Str("envelope"), FALSE, <<>>, Undefined),
        TRUE,
        HealthFields(Str("busy"), Undefined, TRUE,
                     <<MethodName(<<"/", "api", "/", "health">>),
                       MethodDescriptor(<<"/", "status">>, <<"health">>)>>,
                     Undefined))}

\* The messages of the errors a health request fails with.
HealthFailures == {Str("connect ECONNREFUSED"), Str("timeout of 5000ms exceeded")}

\* The bodies of the PUT requests followed.
\* The last gives an id, one that no registered robot has.
RobotUpdates ==
    {Updates({"requiresX402"}, 0, TRUE, {}, Undefined, Undefined),
     Updates({"status"}, 0, FALSE, {"state"}, Str("maintenance"), Undefined),
     Updates({"id"}, 99, FALSE, {}, Undefined, Undefined)}

InitRegistry ==
    /\ DanceIdle
    /\ x402Service \in {service \in Services : service.paymentProvider = "gateway"}
    /\ ParserIdle
    /\ RegistryEmpty
    /\ HandlersIdle
    /\ NothingApplied
    /\ BuyColaIdle
    /\ rpcUrl = Undefined
    /\ ClientIdle

NextRegistry ==
    \/ \E requiresX402 \in BOOLEAN : AddRobot(requiresX402)
    \/ \E robotId \in 1..MaxRobots : RefreshRobot(robotId)
    \/ \E payload \in HealthPayloads : HealthResponds(payload)
    \/ \E message \in HealthFailures : HealthFails(message)
    \/ \E payload \in HealthPayloads : SecuredHealthResponds(payload)
    \/ \E message \in HealthFailures : SecuredHealthFails(message)
    \/ \E robotId \in 1..MaxRobots : RemoveRobot(robotId)
    \/ \E robotId \in 1..MaxRobots, updates \in RobotUpdates : UpdateRobot(robotId, updates)
    \/ List

SpecRegistry == InitRegistry /\ [][NextRegistry]_allVars

(***************************************************************************)
(* Overlapping POST /dance requests: the route awaits commandRouter.dance  *)
(* and every await of dance lets another request's handler run.  Each      *)
(* handler h has its own call: its selection, the robots served so far,    *)
(* the invoice being settled and the attempt counter.                      *)
(***************************************************************************)
\* The robot the loop of the call is at.
HandlerRobot(call) == call.selectedRobots[call.served + 1]

\* The handshake of the current robot ends: its entry is pushed.
Served(call) ==
    [call EXCEPT !.served = @ + 1, !.pc = "loop", !.normalisedInvoice = Null, !.attempt = 0]

\* The confirmation loop's condition with the counter at n: the next paid
\* retry is posted, or the handshake ends.
HandlerTurn(call, n) ==
    IF ~LoopContinues(n) THEN Served(call)
    ELSE IF driveCommandCannotSend(HandlerRobot(call)) THEN Served(call)
    ELSE [call EXCEPT !.attempt = n + 1, !.pc = "confirming"]

\* The call awaits a settleInvoice that passed its checks: a settlement
\* request or a transaction is under way.
SettlementInFlight(call) ==
    /\ call.pc = "settling"
    /\ settleInvoiceRejects(call.normalisedInvoice) = Null

Handles(h, call) ==
    /\ handlers' = [handlers EXCEPT ![h] = call]
    /\ UNCHANGED outsideHandlers

\* POST /dance: dance({ quantity, mode }) up to its loop, or to its throw,
\* which the route answers with the error's status.
PostDance(h, request) ==
    /\ handlers[h].pc = "idle"
    /\ LET selectionInput ==
               IF Present(request.quantity) THEN request.quantity ELSE request.mode
       IN  IF ~Truthy(selectionInput)
           THEN Handles(h, [handlers[h] EXCEPT !.pc = "answered"])
           ELSE \E outcome \in selectRobotsForDance(selectionInput) :
                    IF outcome.threw
                    THEN Handles(h, [handlers[h] EXCEPT !.pc = "answered"])
                    ELSE Handles(h, [handlers[h] EXCEPT !.pc = "loop",
                                                        !.selectedRobots = outcome.robots])

\* The loop takes the next robot: the unpaid request is posted.
HandlerSendsInitial(h) ==
    /\ handlers[h].pc = "loop"
    /\ handlers[h].served < Len(handlers[h].selectedRobots)
    /\ IF driveCommandCannotSend(HandlerRobot(handlers[h]))
       THEN Handles(h, Served(handlers[h]))
       ELSE Handles(h, [handlers[h] EXCEPT !.pc = "initial"])

\* The robot answers the unpaid request: with a complete invoice in a 402,
\* settleInvoice is called and awaited.
HandlerInitialResponse(h, initialResponse) ==
    /\ handlers[h].pc = "initial"
    /\ LET invoice == parse402PaymentRequest(initialResponse.data)
       IN  IF initialResponse.status # 402 \/ InvoiceIncomplete(invoice)
           THEN Handles(h, Served(handlers[h]))
           ELSE Handles(h, [handlers[h] EXCEPT
                                !.pc = "settling",
                                !.normalisedInvoice = Invoice(invoice.reference,
                                        invoice.receiver, invoice.amount, invoice.asset)])

\* The unpaid request gets no response.
HandlerInitialFailure(h) ==
    /\ handlers[h].pc = "initial"
    /\ Handles(h, Served(handlers[h]))

\* settleInvoice returns a settlement.
HandlerSettleReturns(h) ==
    /\ handlers[h].pc = "settling"
    /\ settleInvoiceReturns(handlers[h].normalisedInvoice) # {}
    /\ Handles(h, HandlerTurn(handlers[h], 0))

\* settleInvoice throws.
HandlerSettleThrows(h) ==
    /\ handlers[h].pc = "settling"
    /\ settleInvoiceThrows(handlers[h].normalisedInvoice) # {}
    /\ Handles(h, Served(handlers[h]))

\* The robot answers a paid retry.
HandlerPaidResponse(h, paymentResponse) ==
    /\ handlers[h].pc = "confirming"
    /\ IF LoopBreaks(paymentResponse)
       THEN Handles(h, Served(handlers[h]))
       ELSE IF DelayNeeded(handlers[h].attempt)
       THEN Handles(h, [handlers[h] EXCEPT !.pc = "delay"])
       ELSE Handles(h, HandlerTurn(handlers[h], handlers[h].attempt))

\* A paid retry gets no response.
HandlerPaidFailure(h) ==
    /\ handlers[h].pc = "confirming"
    /\ Handles(h, Served(handlers[h]))

\* The delay between two attempts is over.
HandlerDelayElapsed(h) ==
    /\ handlers[h].pc = "delay"
    /\ Handles(h, HandlerTurn(handlers[h], handlers[h].attempt))

\* Every selected robot has its entry: dance returns and the route answers.
HandlerAnswers(h) ==
    /\ handlers[h].pc = "loop"
    /\ handlers[h].served = Len(handlers[h].selectedRobots)
    /\ Handles(h, [handlers[h] EXCEPT !.pc = "answered"])

\* The registry holds the priced robots; the ceiling is one or two attempts.
InitOverlap ==
    /\ config \in {[maxAttempts |-> Num(k), selectionStrategy |-> Undefined,
     buyColaSelectionStrategy |-> Undefined] : k \in 1..2}
    /\ x402Service \in Services
    /\ robots = RegistryPriced
    /\ pc = "idle"
    /\ selectedRobots = <<>>
    /\ responses = <<>>
    /\ normalisedInvoice = Null
    /\ settlement = Null
    /\ attempt = 0
    /\ finalResponse = Null
    /\ returned = Null
    /\ sent = <<>>
    /\ settled = <<>>
    /\ ParserIdle
    /\ RegistryEmpty
    /\ HandlersIdle
    /\ NothingApplied
    /\ BuyColaIdle
    /\ rpcUrl = Undefined
    /\ ClientIdle

NextOverlap ==
    \/ \E h \in 1..MaxRequests, request \in DanceRequests : PostDance(h, request)
    \/ \E h \in 1..MaxRequests : HandlerSendsInitial(h)
    \/ \E h \in 1..MaxRequests, initialResponse \in InitialResponses :
            HandlerInitialResponse(h, initialResponse)
    \/ \E h \in 1..MaxRequests : HandlerInitialFailure(h)
    \/ \E h \in 1..MaxRequests : HandlerSettleReturns(h)
    \/ \E h \in 1..MaxRequests : HandlerSettleThrows(h)
    \/ \E h \in 1..MaxRequests, paymentResponse \in PaidResponses :
            HandlerPaidResponse(h, paymentResponse)
    \/ \E h \in 1..MaxRequests : HandlerPaidFailure(h)
    \/ \E h \in 1..MaxRequests : HandlerDelayElapsed(h)
    \/ \E h \in 1..MaxRequests : HandlerAnswers(h)

SpecOverlap == InitOverlap /\ [][NextOverlap]_allVars

(***************************************************************************)
(* sortRobotsByPrice and selectRobotsForDance on registries of robots     *)
(* that advertise the move demo at a price or without one.                *)
(***************************************************************************)
\* The robots a registry lists at most.
MaxListed == 3

RobotIds == <<"r1", "r2", "r3", "r4">>

\* What a listed robot can be: ready with the move demo priced (as a text
\* or as a number) or unpriced, or priced but out of reach.
ListedKinds ==
    {[state |-> "ready", amount |-> Str("0.1")],
     [state |-> "ready", amount |-> Num(200000)],
     [state |-> "ready", amount |-> Str("0.3")],
     [state |-> "ready", amount |-> Undefined],
     [state |-> "unreachable", amount |-> Str("0.1")]}

\* The registries: every list of up to MaxListed robots, in registration
\* order.
ListedRegistries ==
    UNION {{[i \in 1..n |-> Robot(RobotIds[i], FALSE, kinds[i].state,
                                  <<PricedMoveDemo("/api/v1/robot/move_demo",
                                                   kinds[i].amount)>>)] :
                kinds \in [1..n -> ListedKinds]} : n \in 0..MaxListed}

\* The router before any call, over one of the registries, with a price
\* strategy.
InitSort ==
    /\ config \in {[maxAttempts |-> Undefined, selectionStrategy |-> st,
     buyColaSelectionStrategy |-> Undefined] :
                        st \in {Undefined, Str("highest_price")}}
    /\ x402Service \in {service \in Services : service.paymentProvider = "gateway"
                                               /\ service.privateKey}
    /\ robots \in ListedRegistries
    /\ pc = "idle"
    /\ selectedRobots = <<>>
    /\ responses = <<>>
    /\ normalisedInvoice = Null
    /\ settlement = Null
    /\ attempt = 0
    /\ finalResponse = Null
    /\ returned = Null
    /\ sent = <<>>
    /\ settled = <<>>
    /\ ParserIdle
    /\ RegistryEmpty
    /\ HandlersIdle
    /\ NothingApplied
    /\ BuyColaIdle
    /\ rpcUrl = Undefined
    /\ ClientIdle

\* sortRobotsByPrice(robots, DANCE_METHOD_IDENTIFIERS, order) on the listed
\* robots.
SortRobotsByPrice(order) ==
    /\ applied = NotApplied
    /\ applied' = [fn |-> "sortRobotsByPrice", order |-> order, requestedCount |-> Undefined]
    /\ result' = [threw |-> FALSE,
                  robots |-> sortRobotsByPrice(robots, DANCE_METHOD_IDENTIFIERS, order),
                  error |-> Null]
    /\ UNCHANGED outsideApplied

\* selectRobotsForDance(requestedCount).
SelectRobotsForDance(requestedCount) ==
    /\ applied = NotApplied
    /\ applied' = [fn |-> "selectRobotsForDance", order |-> "",
                   requestedCount |-> requestedCount]
    /\ result' \in selectRobotsForDance(requestedCount)
    /\ UNCHANGED outsideApplied

NextSort ==
    \/ \E order \in {"asc", "desc"} : SortRobotsByPrice(order)
    \/ \E requestedCount \in {Num(1), Num(2), Str("all"), Num(3)} :
            SelectRobotsForDance(requestedCount)

SpecSort == InitSort /\ [][NextSort]_allVars

(***************************************************************************)
(* summarisePricing on base amounts of every kind.                        *)
(***************************************************************************)
\* The largest amount tried, in micro-units.
MaxMicro == 100

\* The base amounts: nothing, texts, and every amount up to MaxMicro.
BaseAmounts ==
    {Null, Undefined, Str("abc"), Str(""), Str("0.1"), Num(200000), NaN}
    \cup {Num(k) : k \in 0..MaxMicro}

\* The markups: none, and the configured one.
Markups == {0, markupPercent}

InitPricing ==
    /\ DanceIdle
    /\ x402Service \in {service \in Services : service.paymentProvider = "gateway"
                                               /\ service.privateKey}
    /\ ParserIdle
    /\ RegistryEmpty
    /\ HandlersIdle
    /\ NothingApplied
    /\ BuyColaIdle
    /\ rpcUrl = Undefined
    /\ ClientIdle

SummarisePricing(baseAmount, markup) ==
    /\ applied = NotApplied
    /\ applied' = [fn |-> "summarisePricing", baseAmount |-> baseAmount, markup |-> markup]
    /\ result' = summarisePricing(baseAmount, markup)
    /\ UNCHANGED outsideApplied

NextPricing ==
    \E baseAmount \in BaseAmounts, markup \in Markups : SummarisePricing(baseAmount, markup)

SpecPricing == InitPricing /\ [][NextPricing]_allVars

(***************************************************************************)
(* The dance over robots that price the move demo in small amounts and    *)
(* answer the unpaid request at once, or not at all.                      *)
(***************************************************************************)
\* The robots registered at most.
MaxPriced == 2

\* The prices advertised, in micro-units.
SummaryAmounts == {10, 35, 75, 100000, 200000}

PricedRegistries ==
    UNION {{[i \in 1..n |-> Robot(RobotIds[i], FALSE, "ready",
                                  <<PricedMoveDemo("/api/v1/robot/move_demo",
                                                   Num(amounts[i]))>>)] :
                amounts \in [1..n -> SummaryAmounts]} : n \in 0..MaxPriced}

\* What these robots answer to the unpaid request.
DirectResponses == {Response(200, OkBody), Response(500, ErrorBody("motors offline"))}

InitSummary ==
    /\ config = [maxAttempts |-> Undefined, selectionStrategy |-> Str("sequential"),
     buyColaSelectionStrategy |-> Undefined]
    /\ x402Service \in {service \in Services : service.paymentProvider = "gateway"
                                               /\ service.privateKey}
    /\ robots \in PricedRegistries
    /\ pc = "idle"
    /\ selectedRobots = <<>>
    /\ responses = <<>>
    /\ normalisedInvoice = Null
    /\ settlement = Null
    /\ attempt = 0
    /\ finalResponse = Null
    /\ returned = Null
    /\ sent = <<>>
    /\ settled = <<>>
    /\ ParserIdle
    /\ RegistryEmpty
    /\ HandlersIdle
    /\ NothingApplied
    /\ BuyColaIdle
    /\ rpcUrl = Undefined
    /\ ClientIdle

NextSummary ==
    \/ \E request \in DanceRequests : Dance(request)
    \/ SendInitial
    \/ \E initialResponse \in DirectResponses : InitialResponse(initialResponse)
    \/ \E error \in TransportFailures : InitialTransportFailure(error)
    \/ DanceReturns

SpecSummary == InitSummary /\ [][NextSummary]_allVars

(***************************************************************************)
(* buyCola: the dispatch of one purchase to one robot.                     *)
(***************************************************************************)
BUY_COLA_METHOD_IDENTIFIERS ==
    <<"/commands/buy-cola", "/api/v1/robot/buy-cola", "buy-cola", "x402_buy_service">>

BuyColaEndpoint == "/commands/buy-cola"

buyColaSelectionStrategy ==
    IF Truthy(config.buyColaSelectionStrategy)
    THEN ToLowerCase(config.buyColaSelectionStrategy.s)
    ELSE "closest"

\* A { lat, lng } object; coordinates are whole numbers of a grid.
Location(lat, lng) == [t |-> "object", s |-> "", n |-> 0, lat |-> lat, lng |-> lng]

\* A distance, kept as its square (Math.sqrt is increasing, and exact
\* squares of grid distances stay apart); Infinity when a location misses.
Infinity == [finite |-> FALSE, squared |-> 0]

calculateDistance(a, b) ==
    IF ~Truthy(a) \/ ~Truthy(b) THEN Infinity
    ELSE LET dx == a.lat.n - b.lat.n
             dy == a.lng.n - b.lng.n
         IN  [finite |-> TRUE, squared |-> dx * dx + dy * dy]

\* The comparator (left, right) => left.distance - right.distance:
\* Infinity - Infinity is NaN, which sort takes for +0.
CompareDistance(left, right) ==
    IF ~left.distance.finite /\ ~right.distance.finite THEN 0
    ELSE IF ~left.distance.finite THEN 1
    ELSE IF ~right.distance.finite THEN -1
    ELSE IF left.distance.squared = right.distance.squared THEN 0
    ELSE IF left.distance.squared > right.distance.squared THEN 1 ELSE -1

\* The insertion of a sort that prefers the farther candidate.
RECURSIVE InsertByDistanceFarthest(_, _)
InsertByDistanceFarthest(sorted, x) ==
    IF sorted = <<>> THEN <<x>>
    ELSE IF CompareDistance(x, Head(sorted)) > 0 THEN <<x>> \o sorted
         ELSE <<Head(sorted)>> \o InsertByDistanceFarthest(Tail(sorted), x)

\* x put into the sorted list after every element it does not precede.
RECURSIVE InsertByDistance(_, _)
InsertByDistance(sorted, x) ==
    IF sorted = <<>> THEN <<x>>
    ELSE IF CompareDistance(x, Head(sorted)) < 0 THEN <<x>> \o sorted
         ELSE <<Head(sorted)>> \o InsertByDistance(Tail(sorted), x)

\* candidates.sort(comparator): Array.prototype.sort is stable.
RECURSIVE SortByDistance(_)
SortByDistance(candidates) ==
    IF candidates = <<>> THEN <<>>
    ELSE InsertByDistance(SortByDistance(SubSeq(candidates, 1, Len(candidates) - 1)),
                          candidates[Len(candidates)])

\* selectRobotForBuyCola(location): what it returns, or the error it throws.
BuyColaSelected(robot, selection) ==
    [threw |-> FALSE, error |-> Null, robot |-> robot, selection |-> selection,
     methodInfo |-> findMethodEntry(robot, BUY_COLA_METHOD_IDENTIFIERS)]

BuyColaRefused(statusCode, message) ==
    [threw |-> TRUE, error |-> createHttpError(statusCode, message), robot |-> Null,
     selection |-> Null, methodInfo |-> Null]

selectRobotForBuyCola(location) ==
    LET available == getRobotsByState(robots, "ready")
    IN  IF Len(available) = 0 THEN BuyColaRefused(409, "No robots ready for dispatch")
        ELSE IF buyColaSelectionStrategy = "lowest_price"
        THEN LET selected == sortRobotsByPrice(available, BUY_COLA_METHOD_IDENTIFIERS,
                                               "asc")[1]
             IN  BuyColaSelected(selected,
                    [strategy |-> buyColaSelectionStrategy,
                     price |-> getPricingAmount(
                                  findMethodEntry(selected, BUY_COLA_METHOD_IDENTIFIERS)),
                     distance |-> Undefined])
        ELSE LET candidates ==
                     SortByDistance([i \in 1..Len(available) |->
                         [robot |-> available[i],
                          distance |-> calculateDistance(available[i].location,
                                                         location)]])
                 closest == candidates[1]
             IN  IF ~closest.distance.finite
                 THEN BuyColaRefused(422,
                        "Unable to determine closest robot. Ensure robots report their location.")
                 ELSE BuyColaSelected(closest.robot,
                        [strategy |-> buyColaSelectionStrategy, price |-> Undefined,
                         distance |-> closest.distance])

\* typeof v === 'number'
IsNumberType(v) == v.t = "number"

\* What buyCola returns: the result of the dispatch and its summary.
BuyColaResult(call, status, response, error) ==
    [threw |-> FALSE, error |-> Null,
     result |-> [robotId |-> call.robot.id, status |-> status, response |-> response,
                 error |-> error, pricing |-> call.pricing, selection |-> call.selection],
     summary |-> [selectionStrategy |-> call.selection.strategy,
                  markupPercent |-> markupPercent,
                  robotId |-> call.robot.id,
                  baseAmount |-> IF call.pricing = Null THEN Null
                                 ELSE Num(call.pricing.baseAmount),
                  suggestedPrice |-> IF call.pricing = Null THEN Null
                                     ELSE Num(call.pricing.suggestedPrice)]]

BuyColaThrows(request, error) ==
    /\ buyColaCall' = [NoBuyCola EXCEPT !.pc = "rejected", !.request = request]
    /\ returned' = [threw |-> TRUE, error |-> error]
    /\ UNCHANGED sent

\* buyCola({location, quantity}) up to the await of driveCommand: the input
\* checks, the selection, the pricing and the command posted.
BuyCola(request) ==
    /\ buyColaCall.pc = "idle"
    /\ IF \/ ~Truthy(request.location)
          \/ ~IsNumberType(request.location.lat)
          \/ ~IsNumberType(request.location.lng)
       THEN BuyColaThrows(request,
                createHttpError(400, "Location with numeric lat and lng is required"))
       ELSE IF ~IsInteger(request.quantity) \/ request.quantity.n <= 0
       THEN BuyColaThrows(request,
                createHttpError(400, "Quantity must be a positive integer"))
       ELSE LET chosen == selectRobotForBuyCola(request.location)
            IN  IF chosen.threw THEN BuyColaThrows(request, chosen.error)
                ELSE LET call == [pc |-> "awaiting", request |-> request,
                                  robot |-> chosen.robot,
                                  selection |-> chosen.selection,
                                  pricing |-> summarisePricing(
                                      IF chosen.methodInfo = Null THEN Null
                                      ELSE getPricingAmount(chosen.methodInfo),
                                      markupPercent)]
                     IN  IF driveCommandCannotSend(chosen.robot)
                         THEN /\ buyColaCall' = [call EXCEPT !.pc = "returned"]
                              /\ returned' = BuyColaResult(call, "failed", Undefined,
                                                Str("x402 private key is not configured"))
                              /\ UNCHANGED sent
                         ELSE /\ buyColaCall' = call
                              /\ sent' = Append(sent, CommandRequest(chosen.robot,
                                                          BuyColaEndpoint, Undefined))
                              /\ UNCHANGED returned
    /\ UNCHANGED <<config, x402Service, robots, pc, selectedRobots, responses,
                   normalisedInvoice, settlement, attempt, finalResponse, settled>>
    /\ UNCHANGED outsideBuyCola

\* The robot answers, with whatever status: driveCommand returns the
\* response, buyCola reports a success.
BuyColaResponse(response) ==
    /\ buyColaCall.pc = "awaiting"
    /\ buyColaCall' = [buyColaCall EXCEPT !.pc = "returned"]
    /\ returned' = BuyColaResult(buyColaCall, "success", response.data, Undefined)
    /\ UNCHANGED <<config, x402Service, robots, pc, selectedRobots, responses,
                   normalisedInvoice, settlement, attempt, finalResponse, sent, settled>>
    /\ UNCHANGED outsideBuyCola

\* The request gets no answer: driveCommand throws, buyCola reports the
\* failure.
BuyColaTransportFailure(error) ==
    /\ buyColaCall.pc = "awaiting"
    /\ buyColaCall' = [buyColaCall EXCEPT !.pc = "returned"]
    /\ returned' = BuyColaResult(buyColaCall, "failed", Undefined, error.message)
    /\ UNCHANGED <<config, x402Service, robots, pc, selectedRobots, responses,
                   normalisedInvoice, settlement, attempt, finalResponse, sent, settled>>
    /\ UNCHANGED outsideBuyCola

\* The robots registered at most.
MaxColaRobots == 2

\* What a robot advertises: cola at a price given as a text or as a number,
\* or the move demo only.
ColaMethods ==
    {<<DetailedMethod("/commands/buy-cola", "", "", Str("0.3"))>>,
     <<DetailedMethod("/api/v1/robot/buy-cola", "", "", Num(100000))>>,
     <<SimpleMethod("move_demo")>>}

\* What a robot can be: ready with one of these method lists, or out of
\* reach; at either end of a grid line, or nowhere known; reached over the
\* signed transport or not.
ColaKinds ==
    {[state |-> "ready", methods |-> methods, location |-> location,
      requiresX402 |-> requiresX402] :
        methods \in ColaMethods,
        location \in {Null, Location(Num(0), Num(0)), Location(Num(2), Num(0))},
        requiresX402 \in BOOLEAN}
    \cup {[state |-> "unreachable",
           methods |-> <<DetailedMethod("/commands/buy-cola", "", "", Str("0.3"))>>,
           location |-> location, requiresX402 |-> FALSE] :
            location \in {Null, Location(Num(0), Num(0))}}

RECURSIVE ColaRegistriesOf(_)
ColaRegistriesOf(n) ==
    IF n = 0 THEN {<<>>}
    ELSE {Append(registry, [Robot(RobotIds[n], kind.requiresX402, kind.state,
                                  kind.methods) EXCEPT !.location = kind.location]) :
            registry \in ColaRegistriesOf(n - 1), kind \in ColaKinds}

ColaRegistries == UNION {ColaRegistriesOf(n) : n \in 0..MaxColaRobots}

\* The { location, quantity } bodies posted to /buy-cola: the customer at
\* an end of the grid line or in its middle, and bodies that miss a part.
BuyColaRequests ==
    {[location |-> Location(Num(lat), Num(0)), quantity |-> quantity] :
        lat \in {0, 1}, quantity \in {Num(1), Num(0), Str("2")}}
    \cup {[location |-> location, quantity |-> Num(1)] :
            location \in {Undefined, Location(Str("1"), Num(0)),
                          Location(Num(1), Undefined)}}
    \cup {[location |-> Location(Num(1), Num(0)), quantity |-> Undefined]}

\* What a robot answers to the command.
BuyColaResponses ==
    {Response(200, OkBody), Response(500, ErrorBody("out of stock")),
     Response(402, BodyV2)}

InitBuyCola ==
    /\ config \in {[maxAttempts |-> Undefined, selectionStrategy |-> Undefined,
                    buyColaSelectionStrategy |-> st] :
                        st \in {Undefined, Str("lowest_price")}}
    /\ x402Service \in {service \in Services : service.paymentProvider = "gateway"}
    /\ robots \in ColaRegistries
    /\ pc = "idle"
    /\ selectedRobots = <<>>
    /\ responses = <<>>
    /\ normalisedInvoice = Null
    /\ settlement = Null
    /\ attempt = 0
    /\ finalResponse = Null
    /\ returned = Null
    /\ sent = <<>>
    /\ settled = <<>>
    /\ ParserIdle
    /\ RegistryEmpty
    /\ HandlersIdle
    /\ NothingApplied
    /\ BuyColaIdle
    /\ rpcUrl = Undefined
    /\ ClientIdle

NextBuyCola ==
    \/ \E request \in BuyColaRequests : BuyCola(request)
    \/ \E response \in BuyColaResponses : BuyColaResponse(response)
    \/ \E error \in TransportFailures : BuyColaTransportFailure(error)

SpecBuyCola == InitBuyCola /\ [][NextBuyCola]_allVars

(***************************************************************************)
(* AIAgentService: the selection of an executor among candidates.          *)
(***************************************************************************)
\* A candidate as the service reads it.
AgentRobot(id, state, methods, location, lastHealthCheckAt) ==
    [id |-> id, requiresX402 |-> FALSE,
     status |-> [state |-> state, availableMethods |-> methods],
     location |-> location, lastHealthCheckAt |-> lastHealthCheckAt]

\* What a selection returns (confidence left out).
Selection(robot, reason) == [threw |-> FALSE, error |-> "", robot |-> robot, reason |-> reason]

SelectionThrows(message) == [threw |-> TRUE, error |-> message, robot |-> Null, reason |-> ""]

\* extractPricing(robot, command): the pricing of the first method that
\* names the command, Null when there is none.  A descriptor without
\* pricing.amount stands for one without pricing.
extractPricing(robot, command) ==
    LET methods == robot.status.availableMethods
        named(m) == IF m.isString
                    THEN LowerIncludes(ToLowerCase(m.name), ToLowerCase(command))
                    ELSE LowerIncludes(ToLowerCase(m.path), ToLowerCase(command))
        hits == {i \in 1..Len(methods) : named(methods[i])}
        method == methods[CHOOSE i \in hits : \A j \in hits : i <= j]
    IN  IF hits = {} THEN Null
        ELSE IF ~method.isString /\ method.pricingAmount # Undefined
        THEN [amount |-> method.pricingAmount]
        ELSE Null

robotHasMethod(robot, command) ==
    \E i \in 1..Len(robot.status.availableMethods) :
        LET m == robot.status.availableMethods[i]
        IN  IF m.isString
            THEN LowerIncludes(ToLowerCase(m.name), ToLowerCase(command))
            ELSE \/ LowerIncludes(ToLowerCase(m.path), ToLowerCase(command))
                 \/ LowerIncludes(ToLowerCase(m.description), ToLowerCase(command))

\* AIAgentService.calculateDistance(a, b): Infinity unless both are objects
\* with a numeric lat.
AIAgentService_calculateDistance(a, b) ==
    IF ~Truthy(a) \/ ~Truthy(b) THEN Infinity
    ELSE IF ~IsNumberType(a.lat) \/ ~IsNumberType(b.lat) THEN Infinity
    ELSE calculateDistance(a, b)

closestSelection(candidates, context) ==
    IF ~Truthy(context.location)
    THEN Selection(candidates[1], "No location context, selected first available robot")
    ELSE LET located(robot) == Truthy(robot.location)
             kept == SelectSeq(candidates, located)
             withDistance ==
                 SortByDistance([i \in 1..Len(kept) |->
                     [robot |-> kept[i],
                      distance |-> AIAgentService_calculateDistance(context.location,
                                                                    kept[i].location)]])
         IN  IF Len(withDistance) = 0
             THEN Selection(candidates[1],
                            "No robots with location data, selected first available")
             ELSE Selection(withDistance[1].robot, "Closest robot")

\* The price lowestPriceSelection sorts by, in micro-units: 0 stands for
\* Infinity (no pricing, or an amount that is falsy).
LowestPriceOf(robot, command) ==
    LET pricing == extractPricing(robot, command)
    IN  IF pricing = Null THEN 0
        ELSE IF ~Truthy(pricing.amount) THEN 0
        ELSE ToNumber(pricing.amount).n

lowestPriceSelection(candidates, command) ==
    LET priced(robot) == LowestPriceOf(robot, command) # 0
        withPricing == SelectSeq(candidates, priced)
        least == {i \in 1..Len(withPricing) :
                    \A j \in 1..Len(withPricing) :
                        LowestPriceOf(withPricing[i], command)
                            <= LowestPriceOf(withPricing[j], command)}
    IN  IF Len(withPricing) = 0
        THEN Selection(candidates[1], "No pricing available, selected first available robot")
        ELSE Selection(withPricing[CHOOSE i \in least : \A j \in least : i <= j],
                       "Lowest price")

fastestSelection(candidates) ==
    LET latest == {i \in 1..Len(candidates) :
                     \A j \in 1..Len(candidates) :
                        candidates[i].lastHealthCheckAt >= candidates[j].lastHealthCheckAt}
    IN  Selection(candidates[CHOOSE i \in latest : \A j \in latest : i <= j],
                  "Selected robot with most recent health check")

\* The whole number r with r * r = squared (the model keeps robots and
\* customers on one line).
WholeRoot(squared) == CHOOSE r \in 0..squared : r * r = squared

\* The score of smartSelection as a fraction num / den, or NaN.  The price
\* factor is 0.3 / (amount + 0.001), the proximity factor 0.3 / (distance +
\* 1); amounts are taken in thousandths.  An amount given as a text makes
\* `pricing.amount + 0.001` a text and the score NaN.
SmartScore(robot, command, context) ==
    LET pricing == extractPricing(robot, command)
        isPriced == pricing # Null
        distance == IF Truthy(context.location) /\ Truthy(robot.location)
                    THEN AIAgentService_calculateDistance(context.location, robot.location)
                    ELSE Infinity
        isNear == distance.finite
        a == IF isPriced /\ pricing.amount.t = "number"
             THEN pricing.amount.n \div 1000 + 1 ELSE 1
        d == IF isNear THEN WholeRoot(distance.squared) + 1 ELSE 1
        flags == (IF robotHasMethod(robot, command) THEN 1 ELSE 0)
                 + (IF robot.status.state = "ready" THEN 1 ELSE 0)
    IN  [nan |-> isPriced /\ pricing.amount.t # "number",
         num |-> (IF isPriced THEN 3000 * d ELSE 0) + (IF isNear THEN 3 * a ELSE 0)
                 + 2 * a * d * flags,
         den |-> 10 * a * d,
         addends |-> <<IF isPriced THEN a ELSE 0, IF isNear THEN d ELSE 0, flags>>]

Scores(left, right) == left.num * right.den - right.num * left.den

\* smartSelection sorts by score, highest first, and takes the first.  The
\* candidates with the highest score are taken to be the same double when
\* they add the same addends, and then the first of them is returned;
\* otherwise any of them may be.  With a NaN among the scores the order
\* the sort leaves is not determined: any candidate may be returned.
smartSelection(candidates, command, context) ==
    LET score(i) == SmartScore(candidates[i], command, context)
        all == 1..Len(candidates)
        best == {i \in all : \A j \in all : Scores(score(j), score(i)) <= 0}
        first == CHOOSE i \in best : \A j \in best : i <= j
    IN  IF \E i \in all : score(i).nan /\ Len(candidates) > 1
        THEN {Selection(candidates[i], "Smart selection") : i \in all}
        ELSE IF \A i \in best : score(i).addends = score(first).addends
        THEN {Selection(candidates[first], "Smart selection")}
        ELSE {Selection(candidates[i], "Smart selection") : i \in best}

\* selectViaStrategy: the selections the configured strategy can return.
selectViaStrategy(strategy, candidates, command, context) ==
    CASE strategy = "lowest_price" -> {lowestPriceSelection(candidates, command)}
      [] strategy = "closest" -> {closestSelection(candidates, context)}
      [] strategy = "fastest" -> {fastestSelection(candidates)}
      [] OTHER -> smartSelection(candidates, command, context)

\* What the webhook call comes to: no answer in time or no connection, an
\* error status (axios throws on each), or a 200 with a body.
WebhookFailures == {"timeout of 5000ms exceeded", "connect ECONNREFUSED",
                    "Request failed with status code 500"}

WebhookBody(selectedRobotId, reason) ==
    [t |-> "object", s |-> "", n |-> 0, selectedRobotId |-> selectedRobotId,
     reason |-> reason]

WebhookOutcomes ==
    {[failed |-> TRUE, message |-> m, data |-> Undefined] : m \in WebhookFailures}
    \cup {[failed |-> FALSE, message |-> "", data |-> data] :
            data \in {Undefined, Str("ok")}
                     \cup {WebhookBody(id, Undefined) : id \in {Undefined, Str("")}}
                     \cup {WebhookBody(Str(id), Undefined) : id \in {"r1", "r2", "r9"}}
                     \cup {WebhookBody(Str("r1"), Str("nearest and idle"))}}

\* selectViaN8N once the webhook call has come to an outcome.
selectViaN8N(candidates, outcome) ==
    IF outcome.failed THEN SelectionThrows(outcome.message)
    ELSE IF outcome.data.t = "object" /\ Truthy(outcome.data.selectedRobotId)
            /\ \E i \in 1..Len(candidates) :
                    candidates[i].id = outcome.data.selectedRobotId.s
    THEN LET found == CHOOSE i \in 1..Len(candidates) :
                        /\ candidates[i].id = outcome.data.selectedRobotId.s
                        /\ \A j \in 1..(i - 1) :
                                candidates[j].id # outcome.data.selectedRobotId.s
         IN  Selection(candidates[found],
                       IF Truthy(outcome.data.reason) THEN outcome.data.reason.s
                       ELSE "Selected by N8N AI agent")
    ELSE SelectionThrows("N8N did not return valid robot selection")

\* The candidates passed at most.
MaxCandidates == 2

\* What a candidate can be: ready, with the move demo priced as a number
\* or as a text or named only; at either end of a line or nowhere known;
\* probed at some time or never; or out of reach.
AgentKinds ==
    {[state |-> "ready", methods |-> <<method>>, location |-> location,
      lastHealthCheckAt |-> 0] :
        method \in {PricedMoveDemo("/api/v1/robot/move_demo", Num(100000)),
                    PricedMoveDemo("/api/v1/robot/move_demo", Str("0.3")),
                    SimpleMethod("move_demo")},
        location \in {Null, Location(Num(0), Num(0)), Location(Num(2), Num(0))}}
    \cup {[state |-> "ready", methods |-> <<SimpleMethod("move_demo")>>,
           location |-> location, lastHealthCheckAt |-> 1] :
            location \in {Null, Location(Num(0), Num(0)), Location(Num(2), Num(0))}}
    \cup {[state |-> "unreachable", methods |-> <<>>, location |-> Null,
           lastHealthCheckAt |-> 0]}

RECURSIVE CandidateListsOf(_)
CandidateListsOf(n) ==
    IF n = 0 THEN {<<>>}
    ELSE {Append(list, AgentRobot(RobotIds[n], kind.state, kind.methods, kind.location,
                                  kind.lastHealthCheckAt)) :
            list \in CandidateListsOf(n - 1), kind \in AgentKinds}

CandidateLists == UNION {CandidateListsOf(n) : n \in 0..MaxCandidates}

\* The service as configured: with a webhook or without, and its strategy
\* (one of the four, or a name it does not know).
AgentServices ==
    [n8nWebhookUrl : BOOLEAN,
     strategy : {"smart", "lowest_price", "closest", "fastest", "cheapest"}]

\* The contexts: no target location, one on the line, one whose lat is a
\* text.
AgentContexts ==
    {[location |-> Undefined], [location |-> Location(Num(1), Num(0))],
     [location |-> Location(Str("1"), Num(0))]}

InitAgent ==
    /\ config = [maxAttempts |-> Undefined, selectionStrategy |-> Undefined,
                 buyColaSelectionStrategy |-> Undefined]
    /\ x402Service \in {service \in Services : service.paymentProvider = "gateway"
                                               /\ service.privateKey}
    /\ robots \in CandidateLists
    /\ pc = "idle"
    /\ selectedRobots = <<>>
    /\ responses = <<>>
    /\ normalisedInvoice = Null
    /\ settlement = Null
    /\ attempt = 0
    /\ finalResponse = Null
    /\ returned = Null
    /\ sent = <<>>
    /\ settled = <<>>
    /\ ParserIdle
    /\ RegistryEmpty
    /\ HandlersIdle
    /\ NothingApplied
    /\ BuyColaIdle
    /\ rpcUrl = Undefined
    /\ ClientIdle

\* closestSelection({robots, context}) on the candidates; selectExecutor
\* hands it a list that is not empty.
ClosestSelection(context) ==
    /\ applied = NotApplied
    /\ Len(robots) > 0
    /\ applied' = [fn |-> "closestSelection",
                   service |-> [n8nWebhookUrl |-> FALSE, strategy |-> "closest"],
                   command |-> "", context |-> context, webhook |-> Null]
    /\ result' = closestSelection(robots, context)
    /\ UNCHANGED outsideApplied

\* selectExecutor({robots, command, context}) up to its await of the
\* webhook, or to its end when no webhook is configured.
SelectExecutor(service, command, context) ==
    /\ applied = NotApplied
    /\ applied' = [fn |-> "selectExecutor", service |-> service, command |-> command,
                   context |-> context, webhook |-> Null]
    /\ IF Len(robots) = 0
       THEN result' = SelectionThrows("No robots available for selection")
       ELSE IF service.n8nWebhookUrl
       THEN result' = Null
       ELSE result' \in selectViaStrategy(service.strategy, robots, command, context)
    /\ UNCHANGED outsideApplied

\* The webhook call comes to an outcome and selectExecutor lets a failure
\* of selectViaN8N through.
WebhookReturnsUncaught(outcome) ==
    /\ applied.fn = "selectExecutor"
    /\ result = Null
    /\ applied' = [applied EXCEPT !.webhook = outcome]
    /\ result' = selectViaN8N(robots, outcome)
    /\ UNCHANGED outsideApplied

\* The webhook call comes to an outcome (kept with the call): its selection
\* is returned, or its failure caught and the built-in strategy applied.
WebhookReturns(outcome) ==
    /\ applied.fn = "selectExecutor"
    /\ result = Null
    /\ applied' = [applied EXCEPT !.webhook = outcome]
    /\ LET selection == selectViaN8N(robots, outcome)
       IN  IF selection.threw
           THEN result' \in selectViaStrategy(applied.service.strategy, robots,
                                              applied.command, applied.context)
           ELSE result' = selection
    /\ UNCHANGED outsideApplied

NextAgent ==
    \/ \E context \in AgentContexts : ClosestSelection(context)
    \/ \E service \in AgentServices, context \in AgentContexts :
            SelectExecutor(service, "move_demo", context)
    \/ \E outcome \in WebhookOutcomes : WebhookReturns(outcome)

SpecAgent == InitAgent /\ [][NextAgent]_allVars

(***************************************************************************)
(* ClientPaymentService: the verification of a payment on the ledger.      *)
(***************************************************************************)
\* isReady(): Boolean(this._getRpcUrl()); the connection getter gives a
\* connection under the same condition.
isReady == Truthy(rpcUrl)

maxAttempts == 5
delayMs == 2000

\* Lamports in one micro-unit of the asset.
LamportsInMicro == 1000

\* A transaction as getTransaction returns it: meta is "ok", "err" (failed
\* on the ledger) or "none"; the message is "legacy", with accountKeys the
\* list of account keys as texts, or "v0", which has no accountKeys;
\* changes are postBalances[i] - preBalances[i], in lamports.
Transaction(meta, message, accountKeys, changes) ==
    [meta |-> meta, message |-> message, accountKeys |-> accountKeys,
     changes |-> changes]

NoTransaction == Transaction("", "", <<>>, <<>>)

\* String(v) of a receiver
StringOf(v) == IF v.t = "string" THEN v.s ELSE v.t

Invalid(error) ==
    [threw |-> FALSE, valid |-> FALSE, error |-> error, signature |-> Undefined,
     receiver |-> Undefined, amount |-> 0]

Valid(signature, receiver, amount) ==
    [threw |-> FALSE, valid |-> TRUE, error |-> "", signature |-> signature,
     receiver |-> receiver, amount |-> amount]

VerificationThrows(error) ==
    [threw |-> TRUE, valid |-> FALSE, error |-> error, signature |-> Undefined,
     receiver |-> Undefined, amount |-> 0]

\* Lines 47-93 on a transaction found: the result returned, or the
\* TypeError thrown (and caught by the loop) where accountKeys is missing.
CheckTransaction(transaction, signature, expectedReceiver, expectedAmount) ==
    IF transaction.meta # "ok" THEN Invalid("Transaction failed")
    ELSE IF transaction.message # "legacy"
    THEN VerificationThrows("Cannot read properties of undefined (reading 'length')")
    ELSE LET keys == transaction.accountKeys
             hits == {i \in 1..Len(keys) : keys[i] = StringOf(expectedReceiver)}
             at == CHOOSE i \in hits : \A j \in hits : i <= j
             amountTransferred ==
                 IF transaction.changes[at] > 0 THEN transaction.changes[at] ELSE 0
             expected == ToNumber(expectedAmount)
             difference ==
                 IF amountTransferred >= expected.n * LamportsInMicro
                 THEN amountTransferred - expected.n * LamportsInMicro
                 ELSE expected.n * LamportsInMicro - amountTransferred
         IN  IF hits = {} THEN Invalid("Receiver not found in transaction")
             ELSE IF expected # NaN /\ difference > 1000 THEN Invalid("Amount mismatch")
             ELSE Valid(signature, expectedReceiver, amountTransferred)

\* A loop that counts its attempts from 0.
StartedFromZero(signature, expectedReceiver, expectedAmount) ==
    [NoVerification EXCEPT !.pc = "lookup", !.signature = signature,
                           !.expectedReceiver = expectedReceiver,
                           !.expectedAmount = expectedAmount]

\* verifyTransaction(signature, expectedReceiver, expectedAmount) up to its
\* first await: the configuration check.
Started(signature, expectedReceiver, expectedAmount) ==
    IF ~isReady
    THEN [NoVerification EXCEPT !.pc = "threw", !.signature = signature,
                                !.expectedReceiver = expectedReceiver,
                                !.expectedAmount = expectedAmount,
                                !.result = VerificationThrows(
                                              "Solana connection is not configured")]
    ELSE [NoVerification EXCEPT !.pc = "lookup", !.signature = signature,
                                !.expectedReceiver = expectedReceiver,
                                !.expectedAmount = expectedAmount,
                                !.attempt = 1]

VerifyTransaction(signature, expectedReceiver, expectedAmount) ==
    /\ verifyCall.pc = "idle"
    /\ executeCall.pc = "idle"
    /\ verifyCall' = Started(signature, expectedReceiver, expectedAmount)
    /\ UNCHANGED <<vars, rpcUrl, executeCall, outsideClient>>

\* getTransaction comes to an outcome: null (not found), a rejection, or a
\* transaction, which is checked.
GetTransactionReturns(outcome) ==
    /\ verifyCall.pc = "lookup"
    /\ LET looked == [verifyCall EXCEPT !.lookups = @ + 1,
                                        !.last = [kind |-> outcome.kind,
                                                  error |-> outcome.error,
                                                  meta |-> outcome.transaction.meta]]
           checked == IF outcome.kind = "found"
                      THEN CheckTransaction(outcome.transaction, verifyCall.signature,
                                            verifyCall.expectedReceiver,
                                            verifyCall.expectedAmount)
                      ELSE VerificationThrows(outcome.error)
       IN  IF outcome.kind = "missing"
           THEN IF verifyCall.attempt < maxAttempts
                THEN verifyCall' = [looked EXCEPT !.pc = "delay"]
                ELSE verifyCall' =
                        [looked EXCEPT !.pc = "returned",
                            !.result = Invalid("Transaction not found (RPC may be delayed)")]
           ELSE IF checked.threw
           THEN IF verifyCall.attempt >= maxAttempts
                THEN verifyCall' = [looked EXCEPT !.pc = "returned",
                                                  !.result = Invalid(checked.error)]
                ELSE verifyCall' = [looked EXCEPT !.pc = "delay"]
           ELSE verifyCall' = [looked EXCEPT !.pc = "returned", !.result = checked]
    /\ UNCHANGED <<vars, rpcUrl, executeCall, outsideClient>>

\* The delay between two lookups has passed.
RetryDelayElapsed ==
    /\ verifyCall.pc = "delay"
    /\ verifyCall' = [verifyCall EXCEPT !.pc = "lookup", !.attempt = @ + 1,
                                        !.waited = @ + delayMs]
    /\ UNCHANGED <<vars, rpcUrl, executeCall, outsideClient>>

\* What a lookup can come to.
Transfers ==
    {Transaction("ok", "legacy", <<"payer", "receiverA">>, <<0 - 100005000, changed>>) :
        changed \in {100000000, 100000900, 50000000, 0}}

LookupOutcomes ==
    {[kind |-> "missing", error |-> "", transaction |-> NoTransaction],
     [kind |-> "error", error |-> "fetch failed", transaction |-> NoTransaction]}
    \cup {[kind |-> "found", error |-> "", transaction |-> transaction] :
            transaction \in Transfers
                \cup {Transaction("err", "legacy", <<"payer", "receiverA">>, <<0, 0>>),
                      Transaction("none", "legacy", <<"payer", "receiverA">>, <<0, 0>>),
                      Transaction("ok", "v0", <<>>, <<>>),
                      Transaction("ok", "legacy", <<"payer", "receiverB">>,
                                  <<0 - 100005000, 100000000>>)}}

\* The receivers and amounts a client submits.
ExpectedReceivers == {Str("receiverA"), Undefined}
ExpectedAmounts == {Num(100000), Num(1), Str("0.1"), Str("abc"), Undefined}

InitVerify ==
    /\ DanceIdle
    /\ x402Service \in {service \in Services : service.paymentProvider = "gateway"
                                               /\ service.privateKey}
    /\ ParserIdle
    /\ RegistryEmpty
    /\ HandlersIdle
    /\ NothingApplied
    /\ BuyColaIdle
    /\ rpcUrl \in {Undefined, Str("https://api.devnet.solana.com")}
    /\ ClientIdle

NextVerify ==
    \/ \E expectedReceiver \in ExpectedReceivers, expectedAmount \in ExpectedAmounts :
            VerifyTransaction(Str("sig1"), expectedReceiver, expectedAmount)
    \/ \E outcome \in LookupOutcomes : GetTransactionReturns(outcome)
    \/ RetryDelayElapsed

SpecVerify == InitVerify /\ [][NextVerify]_allVars

(***************************************************************************)
(* POST /execute: a command run for a client that has paid.                *)
(***************************************************************************)
\* The paymentTransaction object of a body.
PaymentTransaction(receiver, amount, reference, sender) ==
    [t |-> "object", s |-> "", n |-> 0, receiver |-> receiver, amount |-> amount,
     reference |-> reference, sender |-> sender]

\* registry.getById(robotId): the places in the registry with that id.
HavingId(robotId) == {i \in 1..Len(robots) : robots[i].id = robotId.s}

\* The method of the robot that names the command, as lines 411-417 and
\* 380-386 find it: a bare name or a path that includes the command.
NamesCommand(method, command) ==
    IF method.isString
    THEN LowerIncludes(ToLowerCase(method.name), ToLowerCase(command))
    ELSE LowerIncludes(ToLowerCase(method.path), ToLowerCase(command))

MethodsNaming(robot, command) ==
    {i \in 1..Len(robot.status.availableMethods) :
        NamesCommand(robot.status.availableMethods[i], command)}

\* The endpoint posted to: the path of the first such method when it is a
\* descriptor with a path, /commands/<command> otherwise.
EndpointOf(robot, command) ==
    LET hits == MethodsNaming(robot, command)
        method == robot.status.availableMethods[CHOOSE i \in hits : \A j \in hits : i <= j]
    IN  IF ~method.isString /\ method.path # "" THEN method.path
        ELSE IF command = "move_demo" THEN "/commands/move_demo"
        ELSE "/commands/buy-cola"

\* The ready robots that have the command, in registry order.
robotsWithCommand(command) ==
    LET keep(robot) == robot.status.state = "ready" /\ MethodsNaming(robot, command) # {}
    IN  SelectSeq(robots, keep)

\* What selectExecutor can return for the service as configured and the
\* webhook's outcome.
selectExecutor(service, candidates, command, context, outcome) ==
    IF service.n8nWebhookUrl /\ ~selectViaN8N(candidates, outcome).threw
    THEN {selectViaN8N(candidates, outcome)}
    ELSE selectViaStrategy(service.strategy, candidates, command, context)

\* initiateRefund(sender || 'unknown', amount, reason), as the finally
\* block calls it when refundRequired is set and the body has a
\* paymentTransaction.
Refunded(call, reason) ==
    IF Truthy(call.body.paymentTransaction)
    THEN Append(call.refunds,
                [receiver |-> OrElse(call.body.paymentTransaction.sender, Str("unknown")),
                 amount |-> call.body.paymentTransaction.amount,
                 reason |-> reason])
    ELSE call.refunds

\* The handling ends with this status and no refund asked for.
Ends(call, status) == [call EXCEPT !.pc = "ended", !.status = status]

\* The handling ends with this status, refundRequired set, and the refund
\* initiated in the finally block.
EndsRefunding(call, status, reason) ==
    [call EXCEPT !.pc = "ended", !.status = status, !.refundRequired = TRUE,
                 !.refunds = Refunded(call, reason)]

\* Lines 404-452: the robot is known; the readiness and method checks, and
\* the command posted.
PostsTo(call, robot) ==
    LET chosen == [call EXCEPT !.robot = robot]
    IN  IF robot.status.state # "ready"
        THEN /\ executeCall' = EndsRefunding(chosen, 409, "Command execution failed")
             /\ UNCHANGED sent
        ELSE IF MethodsNaming(robot, call.body.command) = {}
        THEN /\ executeCall' = EndsRefunding(chosen, 404, "Command execution failed")
             /\ UNCHANGED sent
        ELSE /\ executeCall' = [chosen EXCEPT !.pc = "posting",
                                   !.forwarded = Append(@, call.body.paymentSignature)]
             /\ sent' = Append(sent,
                    CommandRequest(robot, EndpointOf(robot, call.body.command),
                        IF Truthy(call.body.paymentTransaction.reference)
                        THEN call.body.paymentTransaction.reference ELSE Undefined))

\* Lines 364-402: the robot of the request, by its id in direct mode, by
\* the agent's selection in router mode.
SelectsAndPosts(call) ==
    IF call.body.mode = Str("direct")
    THEN IF ~Truthy(call.body.robotId)
         THEN executeCall' = Ends(call, 400) /\ UNCHANGED sent
         ELSE IF HavingId(call.body.robotId) = {}
         THEN executeCall' = Ends(call, 404) /\ UNCHANGED sent
         ELSE PostsTo(call, robots[CHOOSE i \in HavingId(call.body.robotId) :
                                      \A j \in HavingId(call.body.robotId) : i <= j])
    ELSE LET candidates == robotsWithCommand(call.body.command)
         IN  IF Len(candidates) = 0
             THEN executeCall' = Ends(call, 404) /\ UNCHANGED sent
             ELSE \E service \in AgentServices, outcome \in WebhookOutcomes :
                    \E selection \in selectExecutor(service, candidates, call.body.command,
                                                    [location |-> Undefined], outcome) :
                        PostsTo(call, selection.robot)

\* POST /execute up to its first await: the checks of the body, and the
\* verification started, or skipped when the payment service is not ready.
Execute(body) ==
    /\ executeCall.pc = "idle"
    /\ verifyCall.pc = "idle"
    /\ LET call == [executeCall EXCEPT !.body = body]
       IN  IF body.mode \notin {Str("direct"), Str("router")}
           THEN executeCall' = Ends(call, 400) /\ UNCHANGED <<sent, verifyCall>>
           ELSE IF ~Truthy(body.paymentSignature) \/ ~Truthy(body.paymentTransaction)
           THEN executeCall' = Ends(call, 400) /\ UNCHANGED <<sent, verifyCall>>
           ELSE IF ~isReady
           THEN SelectsAndPosts(call) /\ UNCHANGED verifyCall
           ELSE /\ verifyCall' = Started(body.paymentSignature,
                                         body.paymentTransaction.receiver,
                                         body.paymentTransaction.amount)
                /\ executeCall' = [call EXCEPT !.pc = "verifying"]
                /\ UNCHANGED sent
    /\ UNCHANGED <<config, x402Service, robots, pc, selectedRobots, responses,
                   normalisedInvoice, settlement, attempt, finalResponse, returned,
                   settled, rpcUrl>>
    /\ UNCHANGED outsideClient

\* verifyTransaction has returned: a payment that is not valid ends the
\* handling, a valid one lets it go on.
VerificationReturns ==
    /\ executeCall.pc = "verifying"
    /\ verifyCall.pc = "returned"
    /\ IF ~verifyCall.result.valid
       THEN executeCall' = Ends(executeCall, 400) /\ UNCHANGED sent
       ELSE SelectsAndPosts(executeCall)
    /\ UNCHANGED <<config, x402Service, robots, pc, selectedRobots, responses,
                   normalisedInvoice, settlement, attempt, finalResponse, returned,
                   settled, rpcUrl, verifyCall>>
    /\ UNCHANGED outsideClient

\* The robot answers the command: a 2xx status is a success; any other
\* makes axios throw with the response, the result is 'failed' and a
\* refund is asked for.
RobotAnswers(response) ==
    /\ executeCall.pc = "posting"
    /\ IF response.status \in 200..299
       THEN executeCall' = [Ends(executeCall, 200) EXCEPT
                               !.executionResult = [status |-> "success",
                                                    error |-> Undefined]]
       ELSE LET error == IF Truthy(response.data.error) THEN response.data.error
                         ELSE IF Truthy(response.data.message) THEN response.data.message
                         ELSE Str("Robot returned error")
            IN  executeCall' =
                    [EndsRefunding(executeCall, 200, error.s) EXCEPT
                        !.executionResult = [status |-> "failed", error |-> error]]
    /\ UNCHANGED <<config, x402Service, robots, pc, selectedRobots, responses,
                   normalisedInvoice, settlement, attempt, finalResponse, returned,
                   sent, settled, rpcUrl, verifyCall>>
    /\ UNCHANGED outsideClient

\* The command gets no answer: the error reaches the outer catch.
RobotFailsToAnswer(error) ==
    /\ executeCall.pc = "posting"
    /\ executeCall' = EndsRefunding(executeCall, 500, "Command execution failed")
    /\ UNCHANGED <<config, x402Service, robots, pc, selectedRobots, responses,
                   normalisedInvoice, settlement, attempt, finalResponse, returned,
                   sent, settled, rpcUrl, verifyCall>>
    /\ UNCHANGED outsideClient

\* The robots registered at most.
MaxExecutors == 2

\* What a robot can be: ready with the move demo as a descriptor or as a
\* bare name, ready with another command only, or out of reach.
ExecutorKinds ==
    {[state |-> "ready",
      methods |-> <<PricedMoveDemo("/api/v1/robot/move_demo", Num(100000))>>],
     [state |-> "ready", methods |-> <<SimpleMethod("move_demo")>>],
     [state |-> "ready", methods |-> <<DetailedMethod("/commands/buy-cola", "", "", Undefined)>>],
     [state |-> "unreachable",
      methods |-> <<PricedMoveDemo("/api/v1/robot/move_demo", Num(100000))>>]}

RECURSIVE ExecutorRegistriesOf(_)
ExecutorRegistriesOf(n) ==
    IF n = 0 THEN {<<>>}
    ELSE {Append(registry, AgentRobot(RobotIds[n], kind.state, kind.methods, Null, 0)) :
            registry \in ExecutorRegistriesOf(n - 1), kind \in ExecutorKinds}

ExecutorRegistries == UNION {ExecutorRegistriesOf(n) : n \in 0..MaxExecutors}

\* The bodies posted to /execute.
Payments ==
    {PaymentTransaction(Str("receiverA"), Num(100000), reference, Str("payer")) :
        reference \in {Str("ref-1"), Undefined}}

ExecuteBodies ==
    {[mode |-> Str("direct"), robotId |-> robotId, command |-> "move_demo",
      paymentSignature |-> Str("sig1"), paymentTransaction |-> payment] :
        robotId \in {Str("r1"), Str("r2"), Str("r9"), Undefined}, payment \in Payments}
    \cup {[mode |-> Str("router"), robotId |-> Undefined, command |-> command,
           paymentSignature |-> Str("sig1"), paymentTransaction |-> payment] :
            command \in {"move_demo", "buy-cola"}, payment \in Payments}
    \cup {[mode |-> mode, robotId |-> Str("r1"), command |-> "move_demo",
           paymentSignature |-> Str("sig1"),
           paymentTransaction |-> PaymentTransaction(Str("receiverA"), Num(100000),
                                                     Undefined, Undefined)] :
            mode \in {Undefined, Str("auto")}}
    \cup {[mode |-> Str("direct"), robotId |-> Str("r1"), command |-> "move_demo",
           paymentSignature |-> signature, paymentTransaction |-> payment] :
            signature \in {Undefined, Str("sig1")},
            payment \in {Undefined, PaymentTransaction(Str("receiverA"), Num(100000),
                                                       Undefined, Undefined)}}

\* What the ledger answers while a request is handled.
ExecuteLookups ==
    {outcome \in LookupOutcomes :
        \/ outcome.kind # "found"
        \/ outcome.transaction \in
              {Transaction("ok", "legacy", <<"payer", "receiverA">>,
                           <<0 - 100005000, 100000000>>),
               Transaction("err", "legacy", <<"payer", "receiverA">>, <<0, 0>>)}}

\* What a robot answers to the command.
ExecuteResponses ==
    {Response(200, OkBody), Response(500, ErrorBody("motors offline")),
     Response(402, EmptyBody)}

InitExecute ==
    /\ config = [maxAttempts |-> Undefined, selectionStrategy |-> Undefined,
                 buyColaSelectionStrategy |-> Undefined]
    /\ x402Service \in {service \in Services : service.paymentProvider = "gateway"
                                               /\ service.privateKey}
    /\ robots \in ExecutorRegistries
    /\ pc = "idle"
    /\ selectedRobots = <<>>
    /\ responses = <<>>
    /\ normalisedInvoice = Null
    /\ settlement = Null
    /\ attempt = 0
    /\ finalResponse = Null
    /\ returned = Null
    /\ sent = <<>>
    /\ settled = <<>>
    /\ ParserIdle
    /\ RegistryEmpty
    /\ HandlersIdle
    /\ NothingApplied
    /\ BuyColaIdle
    /\ rpcUrl \in {Undefined, Str("https://api.devnet.solana.com")}
    /\ ClientIdle

NextExecute ==
    \/ \E body \in ExecuteBodies : Execute(body)
    \/ \E outcome \in ExecuteLookups : GetTransactionReturns(outcome)
    \/ RetryDelayElapsed
    \/ VerificationReturns
    \/ \E response \in ExecuteResponses : RobotAnswers(response)
    \/ \E error \in TransportFailures : RobotFailsToAnswer(error)

SpecExecute == InitExecute /\ [][NextExecute]_allVars

(***************************************************************************)
(* Reading the histories.                                                  *)
(***************************************************************************)
\* The requests of the history that concern the robot.
UnpaidRequestsTo(id) ==
    {i \in 1..Len(sent) : sent[i].kind = "command" /\ sent[i].robotId = id
                          /\ sent[i].reference = Undefined}

PaidRetriesTo(id) ==
    {i \in 1..Len(sent) : sent[i].kind = "command" /\ sent[i].robotId = id
                          /\ sent[i].reference # Undefined}

SettleCallsFor(id) ==
    {i \in 1..Len(sent) : sent[i].kind = "settle" /\ sent[i].robotId = id}

\* The place of the robot in the selection order (0 when not selected).
PositionOf(id) ==
    IF \E k \in 1..Len(selectedRobots) : selectedRobots[k].id = id
    THEN CHOOSE k \in 1..Len(selectedRobots) : selectedRobots[k].id = id
    ELSE 0

\* The entry just pushed by a step.
Pushed == responses'[Len(responses')]

\* A step ends the current robot's handshake.
HandshakeEnds == Len(responses') = Len(responses) + 1

\* A step posts a paid retry.
PostsPaidRetry ==
    /\ Len(sent') = Len(sent) + 1
    /\ sent'[Len(sent')].kind = "command"
    /\ sent'[Len(sent')].reference # Undefined

(***************************************************************************)
(* C1.  After a settlement, at most confirmMaxAttempts paid retries go to  *)
(* a robot, the first right after the settlement, and each later one only  *)
(* when the answer to the one before it was a 402: the first answer with   *)
(* another status (200 or anything else) is the last, attempts remaining   *)
(* or not.                                                                 *)
(***************************************************************************)
C1_RetriesBounded ==
    \A k \in 1..Len(selectedRobots) :
        Cardinality(PaidRetriesTo(selectedRobots[k].id)) <= confirmMaxAttempts

C1_RetryOnlyAfter402 ==
    PostsPaidRetry =>
        \/ pc = "settling" /\ Len(settled') = Len(settled) + 1
        \/ pc # "settling" /\ finalResponse' # Null /\ finalResponse'.status = 402

C1_ConfirmationLoopBounded ==
    [](C1_RetriesBounded) /\ [][C1_RetryOnlyAfter402]_vars

\* One dance in which a robot used the whole ceiling of a configuration
\* that allows several attempts, and another was stopped by a rejection
\* with attempts left.
C1_Witness ==
    /\ pc = "returned"
    /\ confirmMaxAttempts > 1
    /\ \E i, j \in 1..Len(responses) :
        /\ responses[i].stage = "payment_confirmation"
        /\ responses[i].httpStatus = Num(402)
        /\ Cardinality(PaidRetriesTo(responses[i].robotId)) = confirmMaxAttempts
        /\ responses[j].stage = "payment_confirmation"
        /\ responses[j].httpStatus = Num(403)
        /\ Cardinality(PaidRetriesTo(responses[j].robotId)) < confirmMaxAttempts

(***************************************************************************)
(* C2.  Whenever settleInvoice returned a settlement for a robot, the      *)
(* robot's entry in the results carries that settlement and the invoice    *)
(* that was paid, however the handshake ended afterwards (a paid retry     *)
(* that got no response included).                                         *)
(***************************************************************************)
C2_SettlementRecorded ==
    \A i \in 1..Len(settled) :
        \A k \in 1..Len(responses) :
            responses[k].robotId = settled[i].robotId =>
                /\ responses[k].payment = settled[i].settlement
                /\ responses[k].invoice # Null
                /\ \E c \in SettleCallsFor(settled[i].robotId) :
                        responses[k].invoice = sent[c].invoice

(***************************************************************************)
(* C3.  settleInvoice is called at most once in a robot's handshake: not   *)
(* again after it returned, not again after it threw, whatever the robot   *)
(* answers to the paid retries (a 402 with another invoice included).      *)
(***************************************************************************)
C3_SettledAtMostOnce ==
    \A k \in 1..Len(selectedRobots) :
        Cardinality(SettleCallsFor(selectedRobots[k].id)) <= 1

\* A finished dance in which a robot answered its last paid retry, not the
\* first, with a 402 that carries another invoice than the one paid, and a
\* robot's settlement threw.
C3_Witness ==
    /\ pc = "returned"
    /\ \E i, j \in 1..Len(responses) :
        /\ responses[i].stage = "payment_confirmation"
        /\ responses[i].attempts >= 2
        /\ responses[i].httpStatus = Num(402)
        /\ parse402PaymentRequest(responses[i].response) # Null
        /\ parse402PaymentRequest(responses[i].response).reference
                # responses[i].invoice.reference
        /\ Cardinality(SettleCallsFor(responses[i].robotId)) = 1
        /\ responses[j].stage = "payment_settlement"
        /\ Cardinality(SettleCallsFor(responses[j].robotId)) = 1

(***************************************************************************)
(* C4.  A 200 to the unpaid request ends the handshake at once: status     *)
(* success, stage completed, the body as response, attempts 0, invoice and *)
(* payment null; nothing is settled and no paid retry is posted for that   *)
(* robot.                                                                  *)
(***************************************************************************)
C4_CompletedAtOnce ==
    \A initialResponse \in InitialResponses :
        (initialResponse.status = 200 /\ InitialResponse(initialResponse)) =>
            /\ HandshakeEnds
            /\ Pushed.robotId = CurrentRobot.id
            /\ Pushed.status = "success"
            /\ Pushed.stage = "completed"
            /\ Pushed.response = initialResponse.data
            /\ Pushed.attempts = 0
            /\ Pushed.invoice = Null
            /\ Pushed.payment = Null
            /\ sent' = sent
            /\ settled' = settled

C4_NothingPaid ==
    \A k \in 1..Len(responses) :
        responses[k].stage = "completed" =>
            /\ SettleCallsFor(responses[k].robotId) = {}
            /\ PaidRetriesTo(responses[k].robotId) = {}
            /\ Cardinality(UnpaidRequestsTo(responses[k].robotId)) = 1

C4_FreeCommandCompletes ==
    [][C4_CompletedAtOnce]_vars /\ [](C4_NothingPaid)

\* A dance returned after a robot answered the unpaid request with a 200.
C4_Witness ==
    /\ pc = "returned"
    /\ \E k \in 1..Len(responses) :
        /\ responses[k].stage = "completed"
        /\ responses[k].response = OkBody
        /\ Cardinality(UnpaidRequestsTo(responses[k].robotId)) = 1

(***************************************************************************)
(* C5.  When the unpaid request gets no response at all, the robot's entry *)
(* is failed at stage 'initial', and the request is not posted again.      *)
(***************************************************************************)
C5_NoResponseFailsAtInitial ==
    \A error \in TransportFailures :
        InitialTransportFailure(error) =>
            /\ HandshakeEnds
            /\ Pushed.status = "failed"
            /\ Pushed.stage = "initial"
            /\ sent' = sent

C5_TransportFailureAtInitial == [][C5_NoResponseFailsAtInitial]_vars

(***************************************************************************)
(* C6.  A 402 whose body does not give all four invoice values ends the    *)
(* handshake failed at stage 'payment_initiation' with attempts 0 and no   *)
(* payment; settleInvoice is only ever called with an invoice whose four   *)
(* fields are present and non-null, and no paid retry follows.             *)
(***************************************************************************)
\* The body gives reference, receiver, amount and asset in one of the two
\* shapes, each present and non-null.
GivesAllFour(body) ==
    \/ /\ body.raw = Obj
       /\ body.x402Version = Num(2)
       /\ body.acceptsIsArray
       /\ Len(body.accepts) > 0
       /\ Present(body.accepts[1].extraReference)
       /\ Present(body.accepts[1].payTo)
       /\ Present(body.accepts[1].amount)
       /\ Present(body.accepts[1].asset)
    \/ /\ body.raw = Obj
       /\ Present(body.reference)
       /\ Present(body.receiver) \/ Present(body.payTo)
       /\ Present(body.amount)
       /\ Present(body.asset)

C6_IncompleteFails ==
    \A initialResponse \in InitialResponses :
        (/\ initialResponse.status = 402
         /\ ~GivesAllFour(initialResponse.data)
         /\ InitialResponse(initialResponse)) =>
            /\ HandshakeEnds
            /\ Pushed.status = "failed"
            /\ Pushed.stage = "payment_initiation"
            /\ Pushed.attempts = 0
            /\ Pushed.payment = Null
            /\ sent' = sent
            /\ settled' = settled

C6_OnlyCompleteInvoicesSettled ==
    /\ \A i \in 1..Len(sent) :
        sent[i].kind = "settle" =>
            /\ sent[i].invoice # Null
            /\ Present(sent[i].invoice.reference)
            /\ Present(sent[i].invoice.receiver)
            /\ Present(sent[i].invoice.amount)
            /\ Present(sent[i].invoice.asset)
    /\ \A k \in 1..Len(responses) :
        responses[k].stage = "payment_initiation" =>
            /\ SettleCallsFor(responses[k].robotId) = {}
            /\ PaidRetriesTo(responses[k].robotId) = {}

C6_IncompleteInvoiceNeverSettled ==
    [][C6_IncompleteFails]_vars /\ [](C6_OnlyCompleteInvoicesSettled)

\* A returned dance in which one robot sent a legacy body whose amount is
\* null and failed at payment initiation, and another robot's invoice, with
\* an amount of 0, went to settleInvoice.
C6_Witness ==
    /\ pc = "returned"
    /\ \E k \in 1..Len(responses) :
        /\ responses[k].stage = "payment_initiation"
        /\ responses[k].response = BodyLegacyNullAmount
    /\ \E i \in 1..Len(sent) :
        /\ sent[i].kind = "settle"
        /\ sent[i].invoice.amount = Num(0)

(***************************************************************************)
(* C7.  When settleInvoice throws the handshake ends failed at stage       *)
(* 'payment_settlement' with the settler's error, no payment and attempts  *)
(* 0: no paid retry is posted and the settlement is not tried again.       *)
(***************************************************************************)
\* The texts an error of the settler can be reported with: the error its
\* answer carries, or its message.
SettlerErrorTexts(invoice) ==
    {e.message : e \in settleInvoiceThrows(invoice)}
    \cup {e.response.data.error :
            e \in {f \in settleInvoiceThrows(invoice) : f.response # Undefined}}

C7_ThrowEndsHandshake ==
    SettleThrows =>
        /\ HandshakeEnds
        /\ Pushed.robotId = CurrentRobot.id
        /\ Pushed.status = "failed"
        /\ Pushed.stage = "payment_settlement"
        /\ Pushed.error \in SettlerErrorTexts(normalisedInvoice)
        /\ Pushed.payment = Null
        /\ Pushed.attempts = 0
        /\ sent' = sent
        /\ settled' = settled

C7_NothingAfterThrow ==
    \A k \in 1..Len(responses) :
        responses[k].stage = "payment_settlement" =>
            /\ PaidRetriesTo(responses[k].robotId) = {}
            /\ Cardinality(SettleCallsFor(responses[k].robotId)) = 1
            /\ \A i \in 1..Len(settled) : settled[i].robotId # responses[k].robotId

C7_SettlementErrorIsTerminal ==
    [][C7_ThrowEndsHandshake]_vars /\ [](C7_NothingAfterThrow)

\* A returned dance with a robot whose settlement the gateway refused.
C7_Witness ==
    /\ pc = "returned"
    /\ \E k \in 1..Len(responses) :
        /\ responses[k].stage = "payment_settlement"
        /\ responses[k].error = Str("insufficient funds")
        /\ responses[k].httpStatus = Num(402)

(***************************************************************************)
(* C8.  After a settlement, when the k-th paid retry is the first answered *)
(* with 200 (the earlier ones with 402), the entry is success at stage     *)
(* 'payment_confirmed' with attempts = k, the settlement and the invoice.  *)
(***************************************************************************)
C8_ConfirmedAtKth ==
    \A paymentResponse \in PaidResponses :
        (paymentResponse.status = 200 /\ PaidResponse(paymentResponse)) =>
            /\ HandshakeEnds
            /\ Pushed.robotId = CurrentRobot.id
            /\ Pushed.status = "success"
            /\ Pushed.stage = "payment_confirmed"
            /\ Pushed.attempts = Cardinality(PaidRetriesTo(CurrentRobot.id))
            /\ Pushed.attempts \in 1..confirmMaxAttempts
            /\ Pushed.attempts > 1 => finalResponse.status = 402
            /\ Pushed.response = paymentResponse.data
            /\ Pushed.payment # Null
            /\ Pushed.payment = settled[Len(settled)].settlement
            /\ settled[Len(settled)].robotId = CurrentRobot.id
            /\ Pushed.invoice = normalisedInvoice
            /\ Pushed.invoice # Null

C8_ConfirmedOnKthRetry == [][C8_ConfirmedAtKth]_vars

\* The scenario: a current-shape invoice, a settlement, a first retry
\* answered 402 and a second answered 200.
C8_Witness ==
    /\ pc = "returned"
    /\ \E k \in 1..Len(responses) :
        /\ responses[k].stage = "payment_confirmed"
        /\ responses[k].status = "success"
        /\ responses[k].attempts = 2
        /\ responses[k].invoice = parse402PaymentRequest(BodyV2)
        /\ responses[k].payment # Null

(***************************************************************************)
(* C9.  After a settlement, when a paid retry is answered with a status    *)
(* other than 200 and 402, or when the last retry the ceiling allows is    *)
(* answered with 402, the entry is failed at stage 'payment_confirmation'  *)
(* with the body of that last answer, attempts = the paid retries posted   *)
(* (the ceiling when it was exhausted) and the settlement.                 *)
(***************************************************************************)
C9_UnconfirmedFails ==
    \A paymentResponse \in PaidResponses :
        (/\ PaidResponse(paymentResponse)
         /\ \/ paymentResponse.status \notin {200, 402}
            \/ /\ paymentResponse.status = 402
               /\ Cardinality(PaidRetriesTo(CurrentRobot.id)) = confirmMaxAttempts) =>
            /\ HandshakeEnds
            /\ Pushed.robotId = CurrentRobot.id
            /\ Pushed.status = "failed"
            /\ Pushed.stage = "payment_confirmation"
            /\ Pushed.response = paymentResponse.data
            /\ Pushed.attempts = Cardinality(PaidRetriesTo(CurrentRobot.id))
            /\ paymentResponse.status = 402 => Pushed.attempts = confirmMaxAttempts
            /\ Pushed.payment # Null
            /\ Pushed.payment = settled[Len(settled)].settlement
            /\ settled[Len(settled)].robotId = CurrentRobot.id
            /\ sent' = sent

C9_ConfirmationFailureRecorded == [][C9_UnconfirmedFails]_vars

\* A returned dance in which one robot was refused at its first retry with
\* attempts left and another answered 402 to every retry of a ceiling of
\* several, the last time with an invoice that is not the one paid.
C9_Witness ==
    /\ pc = "returned"
    /\ confirmMaxAttempts >= 2
    /\ \E i, j \in 1..Len(responses) :
        /\ responses[i].stage = "payment_confirmation"
        /\ responses[i].response = ErrorBody("payment not found")
        /\ responses[i].attempts = 1
        /\ responses[i].payment # Null
        /\ responses[j].stage = "payment_confirmation"
        /\ responses[j].attempts = confirmMaxAttempts
        /\ responses[j].response.reference = Str("ref-9")
        /\ responses[j].payment # Null

(***************************************************************************)
(* C10.  In one dance no request (unpaid, settlement or paid retry) for    *)
(* the robot at position k+1 of the selection is issued before the robot   *)
(* at position k has its entry, confirmation retries included.             *)
(***************************************************************************)
C10_OneHandshakeAtATime ==
    /\ \A i \in 1..Len(sent) :
        /\ PositionOf(sent[i].robotId) >= 1
        /\ PositionOf(sent[i].robotId) <= Len(responses) + 1
    /\ \A i, j \in 1..Len(sent) :
        i < j => PositionOf(sent[i].robotId) <= PositionOf(sent[j].robotId)
    /\ Len(responses) <= Len(selectedRobots)
    /\ \A k \in 1..Len(responses) : responses[k].robotId = selectedRobots[k].id

\* Two robots selected: the first needed two paid retries, and the second
\* has been sent its requests, a settlement among them.
C10_Witness ==
    /\ Len(selectedRobots) = 2
    /\ Len(responses) >= 1
    /\ responses[1].attempts >= 2
    /\ UnpaidRequestsTo(selectedRobots[2].id) # {}
    /\ SettleCallsFor(selectedRobots[2].id) # {}
    /\ PaidRetriesTo(selectedRobots[2].id) # {}

(***************************************************************************)
(* C12.  A request that gets no response fails the entry of that robot     *)
(* only and the loop goes on to the robots that remain: the results of a   *)
(* dance hold exactly one entry per selected robot, in selection order,    *)
(* results[i].robotId being summary.robotsSelected[i].                     *)
(***************************************************************************)
C12_FailureIsLocal ==
    \A error \in TransportFailures :
        (InitialTransportFailure(error) \/ PaidTransportFailure(error)) =>
            /\ HandshakeEnds
            /\ Pushed.robotId = CurrentRobot.id
            /\ Pushed.status = "failed"
            /\ SubSeq(responses', 1, Len(responses)) = responses
            /\ pc' = "loop"
            /\ returned' = returned
            /\ selectedRobots' = selectedRobots

\* The call throws only before anything was sent, and it returns only with
\* every selected robot attempted: its unpaid request posted, unless the
\* request could not be signed.
C12_OneEntryPerSelected ==
    /\ pc = "rejected" => (sent = <<>> /\ responses = <<>>)
    /\ pc = "returned" =>
        /\ ~returned.threw
        /\ Len(returned.results) = Len(selectedRobots)
        /\ Len(returned.summary.robotsSelected) = Len(selectedRobots)
        /\ \A i \in 1..Len(returned.results) :
            /\ returned.results[i].robotId = returned.summary.robotsSelected[i]
            /\ returned.results[i].robotId = selectedRobots[i].id
            /\ \/ UnpaidRequestsTo(selectedRobots[i].id) # {}
               \/ driveCommandCannotSend(selectedRobots[i])
        /\ \A i, j \in 1..Len(returned.results) :
            i # j => returned.results[i].robotId # returned.results[j].robotId

C12_TransportFailureDoesNotAbort ==
    [][C12_FailureIsLocal]_vars /\ [](C12_OneEntryPerSelected)

\* A returned dance of two robots: the first could not be reached, the
\* second was and succeeded.
C12_Witness ==
    /\ pc = "returned"
    /\ Len(returned.results) = 2
    /\ returned.results[1].status = "failed"
    /\ returned.results[1].error = Str("connect ECONNREFUSED")
    /\ returned.results[2].status = "success"
    /\ returned.summary.robotsSelected = <<returned.results[1].robotId,
                                           returned.results[2].robotId>>

(***************************************************************************)
(* C13.  Every entry of the results, failures included, carries a pricing  *)
(* summary computed from the best amount known (the settlement's, else the *)
(* invoice's, else the price the robot's method advertises): the entry of  *)
(* a robot that advertises a price never has a null pricing.               *)
(***************************************************************************)
C13_PricingAtEveryStage ==
    \A k \in 1..Len(responses) :
        methodBaseAmount(selectedRobots[k]) # Null => responses[k].pricing # Null

(***************************************************************************)
(* C14.  parse402PaymentRequest returns null for every current-shape body  *)
(* (version 2, a non-empty accepts list) whose accepts[0] has no            *)
(* extra.reference, and the normalised invoice for every legacy-shape body *)
(* that carries reference, receiver or payTo, amount and asset.            *)
(***************************************************************************)
\* The body is an object of the current shape.
IsCurrentShape(body) ==
    /\ body.raw = Obj
    /\ body.x402Version = Num(2)
    /\ body.acceptsIsArray
    /\ Len(body.accepts) > 0

\* accepts[0] of a current-shape body carries the four values.
CarriesCurrent(body) ==
    /\ IsCurrentShape(body)
    /\ Truthy(body.accepts[1].extraReference)
    /\ Truthy(body.accepts[1].payTo)
    /\ Present(body.accepts[1].amount)
    /\ Truthy(body.accepts[1].asset)

\* The body carries the four values at its top level.
CarriesLegacy(body) ==
    /\ body.raw = Obj
    /\ Truthy(body.reference)
    /\ Truthy(body.receiver) \/ Truthy(body.payTo)
    /\ Present(body.amount)
    /\ Truthy(body.asset)

LegacyInvoiceOf(body) ==
    Invoice(body.reference,
            IF Truthy(body.receiver) THEN body.receiver ELSE body.payTo,
            body.amount, body.asset)

\* The claim as it stands.
C14_ParsesEitherShape ==
    parsedInvoice # Undefined =>
        /\ (IsCurrentShape(paymentRequired)
            /\ paymentRequired.accepts[1].extraReference = Undefined) =>
                parsedInvoice = Null
        /\ CarriesLegacy(paymentRequired) =>
                parsedInvoice = LegacyInvoiceOf(paymentRequired)

\* The claim as amended: the current shape is read first and the legacy
\* values are the fallback.  A current-shape body without extra.reference
\* gives null unless it carries the four legacy values as well; a body
\* with the four legacy values gives the legacy invoice unless accepts[0]
\* is complete, and then accepts[0] is the invoice.
C14_CurrentShapeFirst ==
    parsedInvoice # Undefined =>
        /\ (IsCurrentShape(paymentRequired)
            /\ ~Truthy(paymentRequired.accepts[1].extraReference)
            /\ ~CarriesLegacy(paymentRequired)) =>
                parsedInvoice = Null
        /\ (CarriesLegacy(paymentRequired) /\ ~CarriesCurrent(paymentRequired)) =>
                parsedInvoice = LegacyInvoiceOf(paymentRequired)
        /\ CarriesCurrent(paymentRequired) =>
                /\ parsedInvoice # Null
                /\ parsedInvoice.reference = paymentRequired.accepts[1].extraReference
                /\ parsedInvoice.receiver = paymentRequired.accepts[1].payTo
                /\ parsedInvoice.amount = paymentRequired.accepts[1].amount
                /\ parsedInvoice.asset = paymentRequired.accepts[1].asset

\* Parsed to no invoice: a current-shape body whose accepts[0] has payTo,
\* amount and asset but no extra.reference, and whose top level has a
\* reference and a receiver but no asset.
C14_Witness ==
    /\ parsedInvoice = Null
    /\ IsCurrentShape(paymentRequired)
    /\ paymentRequired.accepts[1] = Accept(Undefined, Str("wallet-A"), Str("0.1"), Str("SOL"))
    /\ paymentRequired.reference = Str("ref-9")
    /\ paymentRequired.receiver = Str("wallet-B")
    /\ paymentRequired.asset = Undefined

(***************************************************************************)
(* The registry: the objects the map holds now.                           *)
(***************************************************************************)
Registered == {robotsMap[i].robot : i \in 1..Len(robotsMap)}

\* A method entry denotes the health endpoint: as a string, or by its path
\* or its description, it equals health or /health or ends with /health,
\* letter case aside.
NamesHealth(text) ==
    LET lower == TextToLowerCase(text)
    IN  lower = <<"health">> \/ EndsWith(lower, <<"/", "health">>)

DenotesHealth(m) ==
    IF m.isString THEN NamesHealth(m.text)
    ELSE NamesHealth(m.path) \/ NamesHealth(m.description)

(***************************************************************************)
(* C15: for every registered executor, after any sequence of probes,      *)
(* status.availableMethods holds no entry that denotes the health         *)
(* endpoint: no string and no descriptor whose path or description equals *)
(* health or /health or ends with /health, compared case-insensitively.   *)
(* The code does not keep it: a string is tested against the anchored     *)
(* pattern only, and a descriptor by its path alone when it has one.      *)
(***************************************************************************)
C15_NoHealthMethodStored ==
    \A robot \in Registered :
        \A i \in 1..Len(objects[robot].status.availableMethods) :
            ~DenotesHealth(objects[robot].status.availableMethods[i])

(***************************************************************************)
(* C16: in every reachable registry state each executor's status.state is *)
(* one of unknown, ready, unreachable, whatever the health payloads and   *)
(* the administrative updates.  The code does not keep it: the payload's  *)
(* status and the update's status.state are stored as they come.          *)
(***************************************************************************)
C16_StateIsEnumerated ==
    \A robot \in Registered :
        objects[robot].status.state \in {Str("unknown"), Str("ready"), Str("unreachable")}

(***************************************************************************)
(* C17: status.secure is true only if the executor's most recent probe    *)
(* succeeded over the signed transport; after a probe that failed on      *)
(* every path, or succeeded on a public path, it is false.  Stated of the *)
(* record as the call that ended last left it.  The code does not keep    *)
(* it: an unreachable status carries Boolean(robot.requiresX402).         *)
(***************************************************************************)
C17_SecureOnlyViaSecuredPath ==
    (ended.op # "" /\ ended.value # NoRobot) =>
        (ended.record.status.secure = True => ended.via = "secure")

(***************************************************************************)
(* C18: probe never throws.  When every health request failed (the public *)
(* urls, then the signed request, made only for a requiresX402 robot with *)
(* a configured service and only after the public urls failed), probe     *)
(* returns state unreachable with the message of the last failure and no  *)
(* methods, and updateStatus stores that status in the record the map     *)
(* holds for the robot.  A call throws only when the map holds no record. *)
(***************************************************************************)
C18_SignedRequestComesLast ==
    \A task \in tasks :
        task.url = 0 =>
            /\ objects[task.robot].requiresX402
            /\ isConfigured
            /\ task.lastError \in HealthFailures

C18_LastFailureStored(message) ==
    ((HealthFails(message) \/ SecuredHealthFails(message))
        /\ Cardinality(tasks') < Cardinality(tasks)) =>
        /\ ended'.via = "none"
        /\ ended'.probe.state = Str("unreachable")
        /\ ended'.probe.message = message
        /\ ended'.probe.availableMethods = <<>>
        /\ ended'.threw => ended'.value = NoRobot
        /\ ended'.value # NoRobot =>
            /\ robotsMap' = robotsMap
            /\ ended'.value = getById(ended'.robotId)
            /\ objects'[ended'.value] = ended'.record
            /\ ended'.record.status.state = Str("unreachable")
            /\ ended'.record.status.message = message
            /\ ended'.record.status.availableMethods = <<>>
            /\ ended'.record.lastHealthCheckAt = Num(clock')

C18_ProbeNeverThrows ==
    /\ [](C18_SignedRequestComesLast /\ (ended.threw => ended.value = NoRobot))
    /\ [][\A message \in HealthFailures : C18_LastFailureStored(message)]_allVars

\* The signed request of a robot that needs it failed after the public
\* ones, and the record holds the unreachable status.
C18_Witness ==
    /\ ended.via = "none"
    /\ ended.value # NoRobot
    /\ ended.record.requiresX402
    /\ isConfigured
    /\ ended.record.status.state = Str("unreachable")
    /\ ended.record.status.message \in HealthFailures

(***************************************************************************)
(* C19: addRobot returns the record it registered, never null, with the   *)
(* status and lastHealthCheckAt of a probe that completed before the      *)
(* return, under every interleaving of removeRobot, updateRobot and       *)
(* refreshRobot with that probe.  The code does not keep it: after a      *)
(* removeRobot during the probe, updateStatus throws, addRobot catches    *)
(* and returns getById(id), null.                                         *)
(***************************************************************************)
C19_AddRobotReturnsProbedRecord ==
    ended.op = "addRobot" =>
        /\ ended.value # NoRobot
        /\ ended.record.id = ended.robotId
        /\ ended.record.status = StoredStatus(ended.probe)
        /\ ended.record.lastHealthCheckAt # Null

(***************************************************************************)
(* C20: a value returned by list() is a snapshot: no later registry       *)
(* operation changes it.  The code does not keep it: the array holds the  *)
(* objects of the map, and updateStatus assigns to their fields.          *)
(***************************************************************************)
C20_ListIsSnapshot ==
    listed.returned =>
        [i \in 1..Len(listed.array) |-> objects[listed.array[i]]] = listedThen

(***************************************************************************)
(* C11: at any moment at most one settleInvoice call is in flight in the   *)
(* process, also when two dance calls overlap in time.  The code does not  *)
(* keep it: a dance call serves its own robots one after the other, but    *)
(* nothing orders the calls of two requests.                               *)
(***************************************************************************)
C11_OneSettlementInFlight ==
    Cardinality({h \in 1..MaxRequests : SettlementInFlight(handlers[h])}) <= 1

(***************************************************************************)
(* C21: sortRobotsByPrice returns a permutation of its input ordered by   *)
(* ascending (order asc, strategy lowest_price) or descending (desc,      *)
(* highest_price) price of the first method matching the identifiers;     *)
(* every robot without such a price comes after all priced ones, and      *)
(* robots of equal price, or all unpriced, keep their registration order. *)
(* For prices 0.2, 0.1, 0.3 and count 2 the dance selects the 0.1 robot   *)
(* and then the 0.2 robot.                                                *)
(***************************************************************************)
DancePrice(robot) == getPricingAmount(findMethodEntry(robot, DANCE_METHOD_IDENTIFIERS))

\* The place of the robot in the registry (ids are unique).
RegisteredAt(robot) == CHOOSE i \in 1..Len(robots) : robots[i].id = robot.id

C21_IsPermutation ==
    /\ Len(result.robots) = Len(robots)
    /\ \A i \in 1..Len(robots) : \E j \in 1..Len(result.robots) : result.robots[j] = robots[i]

C21_IsOrdered ==
    \A i, j \in 1..Len(result.robots) :
        i < j =>
            LET left == DancePrice(result.robots[i])
                right == DancePrice(result.robots[j])
            IN  /\ left = Null => right = Null
                /\ (left # Null /\ right # Null /\ applied.order = "asc") => left.n <= right.n
                /\ (left # Null /\ right # Null /\ applied.order = "desc") => left.n >= right.n
                /\ left = right => RegisteredAt(result.robots[i]) < RegisteredAt(result.robots[j])

\* The registry of the example: three ready robots priced 0.2, 0.1, 0.3.
C21_ExampleRegistry ==
    /\ Len(robots) = 3
    /\ \A i \in 1..3 : robots[i].status.state = "ready"
    /\ <<DancePrice(robots[1]), DancePrice(robots[2]), DancePrice(robots[3])>>
            = <<Num(200000), Num(100000), Num(300000)>>

C21_SortedByPrice ==
    /\ applied.fn = "sortRobotsByPrice" => C21_IsPermutation /\ C21_IsOrdered
    /\ (/\ applied.fn = "selectRobotsForDance"
        /\ applied.requestedCount = Num(2)
        /\ danceSelectionStrategy = "lowest_price"
        /\ C21_ExampleRegistry) =>
            /\ ~result.threw
            /\ result.robots = <<robots[2], robots[1]>>

\* Three robots sorted, two of them at one price and one unpriced between
\* them in the registry.
C21_Witness ==
    /\ applied.fn = "sortRobotsByPrice"
    /\ Len(robots) = 3
    /\ DancePrice(robots[1]) = DancePrice(robots[3])
    /\ DancePrice(robots[1]) # Null
    /\ DancePrice(robots[2]) = Null
    /\ result.robots = <<robots[1], robots[3], robots[2]>>

(***************************************************************************)
(* Rounding in the reals: the integer nearest to scaled / 100, a half     *)
(* going away from zero.                                                  *)
(***************************************************************************)
RoundedHundredth(scaled) ==
    IF scaled >= 0 THEN (2 * scaled + 100) \div 200
    ELSE -((2 * (-scaled) + 100) \div 200)

(***************************************************************************)
(* C22: in a dance summary totalRobotCost is the sum of pricing.baseAmount *)
(* over the results whose status is success, failed results adding        *)
(* nothing, and suggestedPrice is totalRobotCost x (1 + markupPercent/100) *)
(* rounded to 6 decimals; costs 0.1 and 0.2 at 10% give 0.3 and 0.33.     *)
(* Stated of the summaries with a positive total.  The code does not keep *)
(* it: the product is a double, and a tie can fall below the half.        *)
(***************************************************************************)
SucceededCost(entries) ==
    SumOf([i \in 1..Len(entries) |->
            IF entries[i].status = "success" /\ entries[i].pricing # Null
            THEN entries[i].pricing.baseAmount ELSE 0])

C22_SummaryAddsUp ==
    (pc = "returned" /\ ~returned.threw /\ SucceededCost(returned.results) > 0) =>
        /\ returned.summary.totalRobotCost = SucceededCost(returned.results)
        /\ returned.summary.suggestedPrice
            = Num(RoundedHundredth(SucceededCost(returned.results) * (100 + markupPercent)))

(***************************************************************************)
(* C23: summarisePricing returns suggestedPrice = baseAmount x            *)
(* (1 + markupPercent/100) rounded to 6 decimals, with the baseAmount and *)
(* the markupPercent unchanged, for every numeric baseAmount; 0.1 at 10   *)
(* gives 0.11; a null or non-numeric baseAmount gives null.  The code     *)
(* does not keep it: the product is a double, and a tie can fall below    *)
(* the half.                                                              *)
(***************************************************************************)
\* A value that is given and that Number() turns into a number.
IsNumeric(v) == Present(v) /\ ToNumber(v) # NaN

C23_SuggestedPriceRounded ==
    applied.fn = "summarisePricing" =>
        IF IsNumeric(applied.baseAmount)
        THEN result = [baseAmount |-> ToNumber(applied.baseAmount).n,
                       markupPercent |-> applied.markup,
                       suggestedPrice |-> RoundedHundredth(ToNumber(applied.baseAmount).n
                                                           * (100 + applied.markup))]
        ELSE result = Null

(***************************************************************************)
(* C24: rejected calls reach no robot.                                     *)
(***************************************************************************)
\* robot advertises a method that matches the buy-cola identifiers
SellsCola(robot) == findMethodEntry(robot, BUY_COLA_METHOD_IDENTIFIERS) # Null

\* The body has a location with numeric lat and lng and a positive integer
\* quantity.
ValidBuyCola(request) ==
    /\ Truthy(request.location)
    /\ IsNumberType(request.location.lat)
    /\ IsNumberType(request.location.lng)
    /\ IsInteger(request.quantity)
    /\ request.quantity.n > 0

\* The buyCola call made fails validation or finds no ready robot that
\* sells cola.
BuyColaMustFail ==
    /\ buyColaCall.pc # "idle"
    /\ \/ ~ValidBuyCola(buyColaCall.request)
       \/ \A i \in 1..Len(robots) :
            robots[i].status.state = "ready" => ~SellsCola(robots[i])

\* C24: a dance call rejected with an error, and a buyCola call whose body
\* is invalid or for which no ready robot has the buy-cola capability, is
\* rejected with an error, has sent no request to any robot and has made
\* no settlement.
C24_RejectedCallSendsNothing ==
    /\ pc = "rejected" => returned.threw /\ sent = <<>> /\ settled = <<>>
    /\ BuyColaMustFail =>
            /\ buyColaCall.pc = "rejected"
            /\ returned.threw
            /\ sent = <<>>
            /\ settled = <<>>

(***************************************************************************)
(* C25: the closest robot gets the purchase.                               *)
(***************************************************************************)
\* The ready robots that report a location, by their place in the registry.
ReadyLocated ==
    {i \in 1..Len(robots) : robots[i].status.state = "ready"
                            /\ robots[i].location # Null}

\* (dlat^2 + dlng^2) between a located robot and the place asked for.
SquaredDistanceTo(robot, location) ==
    (robot.location.lat.n - location.lat.n) * (robot.location.lat.n - location.lat.n)
    + (robot.location.lng.n - location.lng.n) * (robot.location.lng.n - location.lng.n)

\* A valid buyCola call was made under the closest strategy.
ClosestAsked ==
    /\ buyColaCall.pc # "idle"
    /\ buyColaSelectionStrategy = "closest"
    /\ ValidBuyCola(buyColaCall.request)

HasTarget(context) ==
    /\ Truthy(context.location)
    /\ IsNumberType(context.location.lat)
    /\ IsNumberType(context.location.lng)

NoCandidateLocated == \A i \in 1..Len(robots) : ~Truthy(robots[i].location)

\* C26: closestSelection called with a target location on candidates none
\* of which reports a location fails with an error: it returns no robot.
C26_NoLocationFailsSelection ==
    /\ applied.fn = "closestSelection"
    /\ HasTarget(applied.context)
    /\ NoCandidateLocated
    => result.threw

(***************************************************************************)
(* C27: the webhook cannot make the selection fail.                        *)
(***************************************************************************)
\* The webhook gave nothing to select by: no answer, an error status, a
\* body without selectedRobotId, or an id no candidate has.
WebhookUnusable(outcome) ==
    \/ outcome.failed
    \/ outcome.data.t # "object"
    \/ ~Truthy(outcome.data.selectedRobotId)
    \/ \A i \in 1..Len(robots) : robots[i].id # outcome.data.selectedRobotId.s

\* selectExecutor was called with a webhook configured on candidates, and
\* has returned or thrown.
SelectedWithWebhook ==
    /\ applied.fn = "selectExecutor"
    /\ applied.service.n8nWebhookUrl
    /\ Len(robots) > 0
    /\ result # Null

\* C27: selectExecutor with a webhook configured and at least one candidate
\* does not throw; what it returns is a candidate; when the webhook timed
\* out, failed, answered without selectedRobotId or with an id that is no
\* candidate's, it returns a selection of the built-in strategy, and
\* otherwise the candidate the webhook named.
C27_WebhookNeverFailsSelection ==
    SelectedWithWebhook =>
        /\ ~result.threw
        /\ \E i \in 1..Len(robots) : result.robot = robots[i]
        /\ IF WebhookUnusable(applied.webhook)
           THEN result \in selectViaStrategy(applied.service.strategy, robots,
                                             applied.command, applied.context)
           ELSE result.robot.id = applied.webhook.data.selectedRobotId.s

\* The webhook named a robot that is no candidate; the closest strategy
\* returned the second of two candidates.
C27_Witness ==
    /\ SelectedWithWebhook
    /\ ~applied.webhook.failed
    /\ applied.webhook.data.t = "object"
    /\ applied.webhook.data.selectedRobotId = Str("r9")
    /\ applied.service.strategy = "closest"
    /\ Len(robots) = 2
    /\ ~result.threw
    /\ result.robot.id = "r2"

(***************************************************************************)
(* C30: the verification looks up at most five times and does not throw.   *)
(***************************************************************************)
\* C30: verifyTransaction has made at most 5 lookups, with a wait of the
\* fixed delay before each lookup after the first; while a lookup found
\* nothing and fewer than 5 were made it waits and retries, and at the 5th
\* miss it has returned valid = false; a transaction found failed on the
\* ledger makes it return valid = false at that lookup; it has thrown only
\* with no ledger endpoint configured, and with one configured it is
\* looking up, waiting, or has returned.
C30_VerificationIsBounded ==
    /\ verifyCall.lookups <= 5
    /\ verifyCall.pc \in {"lookup", "delay", "returned"} =>
            /\ isReady
            /\ verifyCall.waited = 2000 * (verifyCall.attempt - 1)
            /\ verifyCall.attempt = verifyCall.lookups
                                    + (IF verifyCall.pc = "lookup" THEN 1 ELSE 0)
    /\ verifyCall.last.kind = "missing" =>
            IF verifyCall.lookups < 5
            THEN verifyCall.pc \in {"delay", "lookup"}
            ELSE /\ verifyCall.pc = "returned"
                 /\ ~verifyCall.result.valid
                 /\ ~verifyCall.result.threw
    /\ verifyCall.last.kind = "found" /\ verifyCall.last.meta = "err" =>
            /\ verifyCall.pc = "returned"
            /\ ~verifyCall.result.valid
            /\ ~verifyCall.result.threw
    /\ verifyCall.pc = "threw" => ~isReady
    /\ verifyCall.pc = "returned" => ~verifyCall.result.threw
    /\ isReady => verifyCall.pc \in {"idle", "lookup", "delay", "returned"}

\* Five lookups found nothing, 8 seconds were waited in between, and the
\* verification returned valid = false.
C30_Witness ==
    /\ verifyCall.pc = "returned"
    /\ verifyCall.lookups = 5
    /\ verifyCall.last.kind = "missing"
    /\ verifyCall.waited = 8000
    /\ ~verifyCall.result.valid

(***************************************************************************)
(* C28: no command without a verified payment.                             *)
(***************************************************************************)
\* verifyTransaction returned valid = true for the signature, receiver and
\* amount of the body.
PaymentVerified ==
    /\ verifyCall.pc = "returned"
    /\ verifyCall.result.valid
    /\ verifyCall.signature = executeCall.body.paymentSignature
    /\ verifyCall.expectedReceiver = executeCall.body.paymentTransaction.receiver
    /\ verifyCall.expectedAmount = executeCall.body.paymentTransaction.amount

\* C28: when the /execute handler has forwarded a command to a robot,
\* verifyTransaction had returned valid = true for the payment signature,
\* receiver and amount submitted; with no ledger endpoint configured no
\* command is forwarded.
C28_CommandOnlyAfterVerification ==
    /\ sent # <<>> => PaymentVerified
    /\ ~isReady => sent = <<>>

(***************************************************************************)
(* C29: a paid command that did not run is refunded.                       *)
(***************************************************************************)
\* The handling has ended without a successful execution: the robot asked
\* for by id is not registered, or a robot was selected and it was not
\* ready, had no such command, answered with an error or did not answer.
CommandNotExecuted ==
    /\ executeCall.pc = "ended"
    /\ \/ /\ executeCall.body.mode = Str("direct")
          /\ Truthy(executeCall.body.robotId)
          /\ HavingId(executeCall.body.robotId) = {}
       \/ /\ executeCall.robot # Null
          /\ \/ executeCall.executionResult = Null
             \/ executeCall.executionResult.status = "failed"

\* C29: when the handling of an /execute request has ended, the payment
\* had been verified and the command did not execute successfully on a
\* robot (robot not found, not ready, command not found on it, an error
\* response, or no response), initiateRefund has been called.
C29_FailedCommandIsRefunded ==
    CommandNotExecuted /\ PaymentVerified => executeCall.refunds # <<>>


(***************************************************************************)
(* C31: verifyTransaction returns valid = true only if the expected        *)
(* receiver appears in the transaction and its balance increased (post     *)
(* minus pre strictly positive) by an amount within 1000 lamports of       *)
(* round(expectedAmount x 10^9), for every expected amount, amounts of     *)
(* 1000 lamports or less included.                                         *)
(* The code takes a balance that did not increase as a transfer of 0       *)
(* lamports, which is within the tolerance of any expected amount of 1000  *)
(* lamports or less; and an expected amount that is not a number gives a   *)
(* comparison with NaN, which never reports a mismatch.                    *)
(***************************************************************************)
ExpectedLamports == ToNumber(verifyCall.expectedAmount).n * LamportsInMicro

WithinTolerance(transferred, expected) ==
    IF transferred >= expected THEN transferred - expected <= 1000
    ELSE expected - transferred <= 1000

C31_ValidMeansReceived ==
    (verifyCall.pc = "returned" /\ verifyCall.result.valid)
        => /\ verifyCall.last.kind = "found"
           /\ verifyCall.result.receiver = verifyCall.expectedReceiver
           /\ verifyCall.result.amount > 0
           /\ ToNumber(verifyCall.expectedAmount) # NaN
           /\ WithinTolerance(verifyCall.result.amount, ExpectedLamports)

(***************************************************************************)
(* C32: with either settlement backend (gateway or solana-direct),         *)
(* settleInvoice on an invoice whose amount is zero or negative throws:    *)
(* no settlement is produced and no settlement request or transaction is   *)
(* submitted; with the direct backend an asset other than 'SOL' is         *)
(* likewise rejected before any transaction is built.                      *)
(* settleInvoice itself only refuses an amount that is NaN or not finite;  *)
(* the test for a positive amount is in SolanaDirectPaymentProvider.settle *)
(* alone, so the gateway backend posts an invoice of amount 0 to the       *)
(* gateway and returns what it answers.                                    *)
(***************************************************************************)
NonPositiveAmount(invoice) ==
    /\ NumericAmount(invoice.amount).t = "number"
    /\ NumericAmount(invoice.amount) # NaN
    /\ NumericAmount(invoice.amount).n <= 0

UnsupportedAsset(invoice) ==
    x402Service.paymentProvider = "solana-direct" /\ invoice.asset # Str("SOL")

MustNotSettle(invoice) == NonPositiveAmount(invoice) \/ UnsupportedAsset(invoice)

C32_NothingSettled ==
    (pc = "settling" /\ MustNotSettle(normalisedInvoice))
        => /\ settled' = settled
           /\ pc' # "confirming"
           /\ settleInvoiceReturns(normalisedInvoice) = {}
           /\ settleInvoiceRejects(normalisedInvoice) # Null

C32_NonPositiveAmountIsRejected == [][C32_NothingSettled]_vars

(***************************************************************************)
(* C33: every paid retry of a handshake goes to the same robot and         *)
(* endpoint as the unpaid request that opened it (the payload is the       *)
(* constant {} of executeMoveDemo) and differs from it only by the header  *)
(* X-X402-Reference, whose value on every attempt is the reference of the  *)
(* invoice parsed from the initial 402, whatever later 402 answers carry;  *)
(* the unpaid request carries no such header.                              *)
(***************************************************************************)
\* The commands and settlement calls of the history before the i-th entry
\* that concern the same robot.
CommandsBefore(i) ==
    {j \in 1..(i - 1) : sent[j].kind = "command" /\ sent[j].robotId = sent[i].robotId}

SettleCallsBefore(i) ==
    {j \in 1..(i - 1) : sent[j].kind = "settle" /\ sent[j].robotId = sent[i].robotId}

C33_RequestsAlike ==
    \A i \in 1..Len(sent) :
        sent[i].kind = "command" =>
            IF CommandsBefore(i) = {}
            THEN sent[i].reference = Undefined
            ELSE /\ \A j \in CommandsBefore(i) : sent[j].endpoint = sent[i].endpoint
                 /\ SettleCallsBefore(i) # {}
                 /\ \A j \in SettleCallsBefore(i) :
                        sent[i].reference = sent[j].invoice.reference
                 /\ Truthy(sent[i].reference)

\* The invoice settled is the one parsed from the answer to the unpaid
\* request, and it stays the handshake's invoice.
C33_InvoiceOfInitial402 ==
    /\ \A initialResponse \in InitialResponses :
        (InitialResponse(initialResponse) /\ pc' = "settling") =>
            /\ initialResponse.status = 402
            /\ normalisedInvoice'.reference =
                    parse402PaymentRequest(initialResponse.data).reference
            /\ sent'[Len(sent')] = SettleRequest(CurrentRobot, normalisedInvoice')
    /\ (pc \in {"settling", "confirming"} /\ pc' = "confirming")
            => normalisedInvoice' = normalisedInvoice

C33_RetryDiffersByReferenceOnly ==
    [](C33_RequestsAlike) /\ [][C33_InvoiceOfInitial402]_vars

\* A second paid retry posted after the first was answered with a 402 that
\* carries another invoice.
C33_Witness ==
    /\ pc = "confirming"
    /\ attempt = 2
    /\ finalResponse # Null
    /\ finalResponse.status = 402
    /\ parse402PaymentRequest(finalResponse.data).reference = Str("ref-9")
    /\ normalisedInvoice.reference = Str("ref-1")
    /\ sent[Len(sent)].reference = Str("ref-1")
    /\ Cardinality(PaidRetriesTo(CurrentRobot.id)) = 2

(***************************************************************************)
(* A dance while robots are removed from the registry: the registry the    *)
(* router selects from is shared with the routes that manage robots, and   *)
(* every await of the dance lets one of their handlers run.                *)
(***************************************************************************)
\* registry.removeRobot(robotId) where the robot is registered:
\* this.robots.delete(robotId).  It runs while the dance waits for an
\* answer, a settlement or a delay (or before or after the dance): from the
\* end of one handshake to the unpaid request of the next the dance does
\* not await.
RegistryRemoveRobot(robotId) ==
    /\ pc # "loop"
    /\ \E k \in 1..Len(robots) : robots[k].id = robotId
    /\ LET others(robot) == robot.id # robotId
       IN  robots' = SelectSeq(robots, others)
    /\ UNCHANGED <<config, x402Service, pc, selectedRobots, responses,
                   normalisedInvoice, settlement, attempt, finalResponse,
                   returned, sent, settled>>
    /\ UNCHANGED outsideDance

\* The ids of the robots ever registered.
RegisteredIds == {"r1", "r2", "r3"}

\* The default strategy with a ceiling of two attempts, and a service that
\* can sign.
InitRemoval ==
    /\ Init
    /\ config.maxAttempts = Num(2)
    /\ x402Service.privateKey

NextRemoval ==
    \/ Next
    \/ \E robotId \in RegisteredIds : RegistryRemoveRobot(robotId)

SpecRemoval == InitRemoval /\ [][NextRemoval]_vars

(***************************************************************************)
(* C34: every robot a dance contacts was, at the moment of selection, in   *)
(* the registry with status.state 'ready' and advertising the move demo    *)
(* (robotSupportsMoveDemo); a robot whose stored status is 'unknown' or    *)
(* 'unreachable' when the dance starts is never sent a command by it.      *)
(***************************************************************************)
\* The step that selects: every robot selected is a record of the registry
\* as it is then, ready and advertising the move demo.
C34_SelectedFromReady ==
    (selectedRobots' # selectedRobots) =>
        /\ pc = "idle"
        /\ \A k \in 1..Len(selectedRobots') :
            /\ \E j \in 1..Len(robots) : robots[j] = selectedRobots'[k]
            /\ selectedRobots'[k].status.state = "ready"
            /\ robotSupportsMoveDemo(selectedRobots'[k])
        /\ \A j \in 1..Len(robots) :
            robots[j].status.state \in {"unknown", "unreachable"} =>
                \A k \in 1..Len(selectedRobots') : selectedRobots'[k].id # robots[j].id

\* Commands go to selected robots only.
C34_OnlySelectedContacted ==
    \A i \in 1..Len(sent) :
        sent[i].kind = "command" =>
            \E k \in 1..Len(selectedRobots) :
                /\ selectedRobots[k].id = sent[i].robotId
                /\ selectedRobots[k].status.state = "ready"
                /\ robotSupportsMoveDemo(selectedRobots[k])

C34_OnlyReadyDancersContacted ==
    [][C34_SelectedFromReady]_vars /\ [](C34_OnlySelectedContacted)

\* A returned dance of all robots, over a registry that holds a robot that
\* advertises the move demo and was never probed successfully: the two
\* others were contacted, it was not.
C34_Witness ==
    /\ pc = "returned"
    /\ Len(selectedRobots) = 2
    /\ \E j \in 1..Len(robots) :
        /\ robots[j].status.state = "unknown"
        /\ robotSupportsMoveDemo(robots[j])
        /\ UnpaidRequestsTo(robots[j].id) = {}
    /\ \A k \in 1..Len(selectedRobots) : UnpaidRequestsTo(selectedRobots[k].id) # {}

(***************************************************************************)
(* C39: a dance never sends a request, and never settles an invoice, for a *)
(* robot that is not in the registry at the moment the request is sent; a  *)
(* robot removed with removeRobot while an earlier robot's handshake of    *)
(* the same dance is in progress is not contacted afterwards.              *)
(* dance iterates over the array selectRobotsForDance returned when the    *)
(* call started and never reads the registry again: a robot removed in the *)
(* meantime still gets its unpaid request, its settlement and its paid     *)
(* retries.                                                                *)
(***************************************************************************)
InRegistry(robotId) == \E j \in 1..Len(robots) : robots[j].id = robotId

C39_SentToRegistered ==
    (Len(sent') > Len(sent)) => InRegistry(sent'[Len(sent')].robotId)

C39_RemovedRobotNotContacted == [][C39_SentToRegistered]_vars

(***************************************************************************)
(* C35: every per-robot result of a dance is consistent: status is         *)
(* 'success' exactly when stage is 'completed' or 'payment_confirmed';     *)
(* stage 'payment_confirmed' or 'payment_confirmation' implies that        *)
(* invoice and payment are not null and 1 <= attempts <=                   *)
(* confirmMaxAttempts; every other stage ('completed', 'initial',          *)
(* 'payment_initiation', 'payment_settlement', 'transport') implies        *)
(* payment null and attempts = 0.                                          *)
(***************************************************************************)
PaidStages == {"payment_confirmed", "payment_confirmation"}

UnpaidStages ==
    {"completed", "initial", "payment_initiation", "payment_settlement", "transport"}

ConsistentEntry(entry) ==
    /\ entry.status \in {"success", "failed"}
    /\ entry.stage \in PaidStages \cup UnpaidStages
    /\ entry.status = "success" <=> entry.stage \in {"completed", "payment_confirmed"}
    /\ entry.stage \in PaidStages =>
        /\ entry.invoice # Null
        /\ entry.payment # Null
        /\ entry.attempts >= 1
        /\ entry.attempts <= confirmMaxAttempts
    /\ entry.stage \in UnpaidStages =>
        /\ entry.payment = Null
        /\ entry.attempts = 0

C35_ResultsConsistent ==
    /\ \A k \in 1..Len(responses) : ConsistentEntry(responses[k])
    /\ (pc = "returned" /\ ~returned.threw) => returned.results = responses

\* A returned dance with a robot confirmed on its second paid retry and a
\* robot whose paid retry got no response after its invoice was settled.
C35_Witness ==
    /\ pc = "returned"
    /\ ~returned.threw
    /\ \E i, j \in 1..Len(returned.results) :
        /\ returned.results[i].stage = "payment_confirmed"
        /\ returned.results[i].attempts = 2
        /\ returned.results[j].stage = "transport"
        /\ \E n \in 1..Len(settled) : settled[n].robotId = returned.results[j].robotId

(***************************************************************************)
(* POST /execute, one request after another: the router keeps nothing of a *)
(* request once it has answered it, the history of what it sent aside.     *)
(***************************************************************************)
MaxExecutions == 2

\* The response has gone out: the next request finds the handler as the
\* first one did.
ExecuteAnswered ==
    /\ executeCall.pc = "ended"
    /\ Len(executeCall.forwarded) < MaxExecutions
    /\ executeCall' = [NoExecute EXCEPT !.forwarded = executeCall.forwarded]
    /\ verifyCall' = NoVerification
    /\ UNCHANGED <<vars, rpcUrl, outsideClient>>

\* A ledger endpoint is configured: every payment is verified.
InitReplay == InitExecute /\ isReady

NextReplay ==
    \/ NextExecute
    \/ ExecuteAnswered

SpecReplay == InitReplay /\ [][NextReplay]_allVars

(***************************************************************************)
(* C36: the /execute flow forwards a command to a robot at most once per   *)
(* distinct payment signature: a signature that has been accepted for one  *)
(* execution is not accepted for a second /execute request.                *)
(* Neither the route nor verifyTransaction records the signatures they     *)
(* have accepted: the ledger gives the same transaction for the same       *)
(* signature every time, so a second request with it is verified and       *)
(* forwarded like the first.                                               *)
(***************************************************************************)
C36_SignatureForwardedOnce ==
    \A i, j \in 1..Len(executeCall.forwarded) :
        i # j => executeCall.forwarded[i] # executeCall.forwarded[j]

(***************************************************************************)
(* C37: buyCola reports result.status 'success' only when the selected     *)
(* robot answered the command with HTTP 200; an answer of 402 or of any    *)
(* error status yields result.status 'failed'.                             *)
(* driveCommand returns error.response when the robot answered with an     *)
(* error status and throws only when there was no answer; buyCola reports  *)
(* 'success' for every response driveCommand returns.                      *)
(***************************************************************************)
C37_AnswerDecidesStatus ==
    \A response \in BuyColaResponses :
        BuyColaResponse(response) =>
            /\ ~returned'.threw
            /\ returned'.result.status = IF response.status = 200 THEN "success"
                                         ELSE "failed"

C37_SuccessOnlyOn200 == [][C37_AnswerDecidesStatus]_allVars

(***************************************************************************)
(* C38: after any sequence of addRobot, refreshRobot, updateStatus,        *)
(* updateRobot and removeRobot, every entry of the registry map is stored  *)
(* under a key equal to the id field of the stored record: getById(x)      *)
(* returns null or a record whose id is x, and no two listed robots share  *)
(* an id.                                                                  *)
(* updateRobot spreads the updates over the record, id included, and       *)
(* stores the result under the id of the path; the route passes the body   *)
(* of the request as the updates, unfiltered.                              *)
(***************************************************************************)
C38_KeyIsId ==
    /\ \A i \in 1..Len(robotsMap) : objects[robotsMap[i].robot].id = robotsMap[i].id
    /\ \A i, j \in 1..Len(robotsMap) :
        i # j => objects[robotsMap[i].robot].id # objects[robotsMap[j].robot].id

(***************************************************************************)
(* A dance in which every call on the network comes to an end: a request   *)
(* to a robot is answered or fails, a settlement returns or throws, a      *)
(* delay elapses.  The router's own steps between two awaits always run.   *)
(* Every step of a dance is one or the other, so the dance is never        *)
(* stopped where a step is possible.                                       *)
(***************************************************************************)
\* Ceilings as configured: a text (no integer: the default is used), a
\* negative number, zero, and an integer used as it is.
CeilingConfigurations ==
    {[maxAttempts |-> m, selectionStrategy |-> Undefined,
      buyColaSelectionStrategy |-> Undefined] :
        m \in {Str("3"), Num(0 - 1), Num(0), Num(2)}}

InitFair ==
    /\ config \in CeilingConfigurations
    /\ x402Service \in {service \in Services : service.paymentProvider = "gateway"
                                               /\ service.privateKey}
    /\ robots \in {RegistryPriced, RegistryNoDancer}
    /\ pc = "idle"
    /\ selectedRobots = <<>>
    /\ responses = <<>>
    /\ normalisedInvoice = Null
    /\ settlement = Null
    /\ attempt = 0
    /\ finalResponse = Null
    /\ returned = Null
    /\ sent = <<>>
    /\ settled = <<>>
    /\ ParserIdle
    /\ RegistryEmpty
    /\ HandlersIdle
    /\ NothingApplied
    /\ BuyColaIdle
    /\ rpcUrl = Undefined
    /\ ClientIdle

SpecFair == InitFair /\ [][Next]_vars /\ WF_vars(Next)

(***************************************************************************)
(* C40: assuming every network call (request to a robot, settlement)       *)
(* eventually returns or fails, every dance over n selected robots         *)
(* eventually returns, after at most n x (1 + confirmMaxAttempts) requests *)
(* to robots and at most n settlement calls, for every configured ceiling  *)
(* (one that is no integer, zero or negative is replaced by an effective   *)
(* ceiling of at least 1).                                                 *)
(***************************************************************************)
CommandsSent == {i \in 1..Len(sent) : sent[i].kind = "command"}

SettlementCalls == {i \in 1..Len(sent) : sent[i].kind = "settle"}

C40_RequestsBounded ==
    /\ confirmMaxAttempts >= 1
    /\ Cardinality(CommandsSent) <= Len(selectedRobots) * (1 + confirmMaxAttempts)
    /\ Cardinality(SettlementCalls) <= Len(selectedRobots)

C40_DanceReturnsWithinBudget ==
    [](C40_RequestsBounded) /\ ((pc = "loop") ~> (pc = "returned"))

\* A returned dance of two robots under a ceiling configured as zero or
\* negative: each robot got its unpaid request, one settlement and the one
\* paid retry of the effective ceiling.
C40_Witness ==
    /\ pc = "returned"
    /\ config.maxAttempts \in {Num(0), Num(0 - 1)}
    /\ Len(selectedRobots) = 2
    /\ Cardinality(CommandsSent) = 4
    /\ Cardinality(SettlementCalls) = 2

=============================================================================
